---- MODULE Spec2Model ----
(***************************************************************************)
(* Artist genre graph (descubro): record normalisation, strong/soft edge   *)
(* classification, the filter effect and the fetch/build/teardown          *)
(* lifecycle of the page component, with the connection-based and          *)
(* genre-chain variants of the builder.                                    *)
(*                                                                         *)
(* A JavaScript string is a sequence of UTF-16 code units (naturals), so   *)
(* that toLowerCase, trim, includes, split and the < comparison of strings *)
(* are computed as the program computes them.  The falsy "absent" values   *)
(* undefined, null and "" are all the empty sequence.                      *)
(***************************************************************************)
EXTENDS Integers, Sequences, FiniteSets, TLC

VARIABLES
    artistsRaw,       \* the fetched artist records (jsonArtists.response.results)
    connectionsRaw,   \* the fetched connection records (connection variants)
    graph,            \* what the build produced: variant, nodes, links, softLinks
    fetchState,       \* "pending" while the fetch is awaited, then "done"
    mounted,          \* FALSE once the effect cleanup of the view has run
    destroy,          \* TRUE once the async body has assigned `destroy`
    selRefs,          \* nodeSelRef/linkSelRef/softLinkSelRef are non-null
    searchTerm,       \* React state searchTerm
    activeGenre,      \* React state activeGenre: [set, genre], set = FALSE is null
    legendItems,      \* React state legendItems (the genres)
    nodeOpacity,      \* per node: target of the "opacity" attribute, in percent
    linkOpacity,      \* per strong link: target "stroke-opacity", in percent
    softLinkOpacity,  \* per soft link: target "stroke-opacity", in percent
    simulation,       \* [state, ticks, alpha] of the d3 force simulation
    tooltip,          \* TRUE while the tooltip div is attached to the body
    position,         \* per node: <<x, y>> as the simulation holds them
    nodeAt,           \* per circle: the rendered <<cx, cy>>
    linkAt,           \* per strong line: the rendered <<x1, y1, x2, y2>>
    softLinkAt,       \* per soft line: the rendered <<x1, y1, x2, y2>>
    hovered,          \* index of the node under the pointer, 0 when none
    nodeRadius,       \* per circle: target of the "r" attribute
    tooltipOpacity,   \* opacity of the tooltip div, in percent
    activeNode,       \* `let activeNode` of the highlight variants: [set, id]
    fixed,            \* per node: its fx, fy as <<fx, fy>>, <<>> when null
    alphaTarget,      \* the simulation's alphaTarget, in the scale of alpha
    gestures          \* per pointer: index of the node it drags, 0 when none

vars == <<artistsRaw, connectionsRaw, graph, fetchState, mounted, destroy,
          selRefs, searchTerm, activeGenre, legendItems, nodeOpacity,
          linkOpacity, softLinkOpacity, simulation, tooltip, position, nodeAt,
          linkAt, softLinkAt, hovered, nodeRadius, tooltipOpacity,
          activeNode, fixed, alphaTarget, gestures>>

\* what the scene shows beyond the opacities
sceneVars == <<position, nodeAt, linkAt, softLinkAt, hovered, nodeRadius,
               tooltipOpacity>>

\* the state of the click-highlight, freeze and drag variants, which the
\* page (page.tsx) does not have
pointerVars == <<activeNode, fixed, alphaTarget, gestures>>

(***************************************************************************)
(* Bounds of the model.                                                    *)
(***************************************************************************)
MaxRecords == 3        \* artist records per response, genre-overlap build
MaxConnArtists == 3    \* artist records per response, connection variants
MaxConnections == 1    \* connection records per response
MaxFetched == 2        \* artist records per response in the page lifecycle
MaxTicks == 2          \* ticks the model lets a simulation run before it ends

(***************************************************************************)
(* Strings.                                                                *)
(***************************************************************************)
Absent == <<>>
Truthy(x) == x # Absent
Or(x, y) == IF Truthy(x) THEN x ELSE y

Str_a == <<97>>  \* "a"
Str_b == <<98>>  \* "b"
Str_7 == <<55>>  \* "7"
Str_z == <<122>>  \* "z"
Str_Unknown == <<85, 110, 107, 110, 111, 119, 110>>  \* "Unknown"
Str_unknown == <<117, 110, 107, 110, 111, 119, 110>>  \* "unknown"
Str_house == <<104, 111, 117, 115, 101>>  \* "house"
Str_House == <<72, 111, 117, 115, 101>>  \* "House"
Str_deep_house == <<100, 101, 101, 112, 32, 104, 111, 117, 115, 101>>  \* "deep house"
Str_tech_house == <<116, 101, 99, 104, 32, 104, 111, 117, 115, 101>>  \* "tech house"
Str_Amy == <<65, 109, 121>>  \* "Amy"
Str_bob == <<98, 111, 98>>  \* "bob"
Str_Bob == <<66, 111, 98>>  \* "Bob"
Str_soft_related == <<115, 111, 102, 116, 45, 114, 101, 108, 97, 116, 101, 100>>  \* "soft-related"
Str_space == <<32>>  \* " "
Str_r1 == <<48, 46, 49>>  \* "0.1"
Str_r2 == <<48, 46, 50>>  \* "0.2"
Str_sep == <<95, 95>>  \* "__"
Str_comma_sp == <<44, 32>>  \* ", "

\* String.prototype.toLowerCase on the ASCII range
ToLowerCase(s) ==
    [i \in 1..Len(s) |-> IF s[i] \in 65..90 THEN s[i] + 32 ELSE s[i]]

IsSpace(c) == c \in {9, 10, 11, 12, 13, 32}

RECURSIVE TrimStart(_)
TrimStart(s) ==
    IF s # <<>> /\ IsSpace(Head(s)) THEN TrimStart(Tail(s)) ELSE s

RECURSIVE TrimEnd(_)
TrimEnd(s) ==
    IF s # <<>> /\ IsSpace(s[Len(s)])
    THEN TrimEnd(SubSeq(s, 1, Len(s) - 1))
    ELSE s

\* String.prototype.trim
Trim(s) == TrimEnd(TrimStart(s))

\* String.prototype.includes
Includes(s, t) ==
    \E i \in 0..(Len(s) - Len(t)) : SubSeq(s, i + 1, i + Len(t)) = t

\* s.split(/\s+/).filter(Boolean), as the set of its words
Words(s) ==
    { SubSeq(s, i, j) : <<i, j>> \in
        { p \in (1..Len(s)) \X (1..Len(s)) :
            /\ p[1] <= p[2]
            /\ \A k \in p[1]..p[2] : ~IsSpace(s[k])
            /\ (p[1] = 1 \/ IsSpace(s[p[1] - 1]))
            /\ (p[2] = Len(s) \/ IsSpace(s[p[2] + 1])) } }

\* a < b on strings: code-unit order, a proper prefix is smaller
RECURSIVE StrLess(_, _)
StrLess(a, b) ==
    IF b = <<>> THEN FALSE
    ELSE IF a = <<>> THEN TRUE
    ELSE IF Head(a) # Head(b) THEN Head(a) < Head(b)
    ELSE StrLess(Tail(a), Tail(b))

\* Array.prototype.includes
InSeq(x, s) == \E i \in 1..Len(s) : s[i] = x

\* Array.from(new Set(s)): first occurrences, in order
RECURSIVE Dedupe(_)
Dedupe(s) ==
    IF s = <<>> THEN <<>>
    ELSE LET r == Dedupe(SubSeq(s, 1, Len(s) - 1))
         IN  IF InSeq(s[Len(s)], r) THEN r ELSE Append(r, s[Len(s)])

\* all sequences over S of length at most n
SeqsUpTo(S, n) == UNION { [1..k -> S] : k \in 0..n }

(***************************************************************************)
(* Raw records.  A raw artist record carries every field one of the        *)
(* builders reads; `genre` is tagged with its JavaScript type.             *)
(***************************************************************************)
\* A record as the API returns it: the id, the name and the genre list are
\* present under each of the aliases the variants read.
RawArtist(id, name, genres) ==
    [ artist_id_text  |-> id,     artist_id  |-> Absent,
      spotify_id_text |-> Absent, spotify_id |-> Absent,
      uid             |-> Absent, id_text    |-> Absent,   \* uid is the field _id
      id              |-> id,
      name_text       |-> name,   name       |-> name,
      artist_name     |-> Absent,
      genre_list_text |-> genres,
      genre           |-> [t |-> "array", v |-> genres],
      image_url_text  |-> Absent, image_url  |-> Absent ]

\* The name the fixtures give to the artist with a given id
NameOf(id) ==
    IF id = Str_a THEN Str_bob
    ELSE IF id = Str_b THEN Str_Bob
    ELSE IF id = Str_7 THEN Str_Amy
    ELSE Absent

GenreLists ==
    { <<>>, <<Str_house>>, <<Str_House>>, <<Str_deep_house>>,
      <<Str_tech_house, Str_house>> }

\* artist records of the genre-overlap and genre-chain builds
RawArtists ==
    { RawArtist(id, NameOf(id), g) : id \in {Str_a, Str_b}, g \in GenreLists }
    \cup { RawArtist(Str_7, NameOf(Str_7), g) : g \in {<<>>, <<Str_house>>} }
    \cup { RawArtist(Absent, Absent, <<Str_house>>) }

(***************************************************************************)
(* page.tsx, Effect 1 step 2: raw records -> unique nodes.                 *)
(***************************************************************************)
\* the id of a raw record: first truthy candidate (page.tsx 106-111)
ResolveId(a) ==
    Or(a.artist_id_text, Or(a.artist_id, Or(a.spotify_id_text,
        Or(a.spotify_id, a.uid))))

ResolveName(a) == Or(a.name_text, Or(a.name, Or(a.artist_name, Str_Unknown)))

ResolveGenreList(a) ==
    IF a.genre_list_text # <<>> THEN a.genre_list_text
    ELSE IF a.genre.t = "array" THEN a.genre.v
    ELSE IF a.genre.t = "string" THEN <<a.genre.v>>
    ELSE <<>>

ResolveImage(a) == Or(a.image_url_text, a.image_url)

ResolveSpotify(a) == Or(a.spotify_id_text, a.spotify_id)

MakeNode(a, id) ==
    [ id |-> id, name |-> ResolveName(a), genre |-> ResolveGenreList(a),
      image |-> ResolveImage(a), spotify |-> ResolveSpotify(a) ]

\* position of the entry with key id in nodeById, 0 when there is none
IndexOfId(nodeById, id) ==
    IF \E i \in 1..Len(nodeById) : nodeById[i].id = id
    THEN CHOOSE i \in 1..Len(nodeById) : nodeById[i].id = id
    ELSE 0

\* a merge that appends the genres of the later record as they are
MergeNodeKeepDuplicates(existing, a) ==
    LET genreList == ResolveGenreList(a)
        image == ResolveImage(a)
        spotify == ResolveSpotify(a)
        name == ResolveName(a)
    IN  [ id |-> existing.id,
          name |-> IF existing.name = Str_Unknown /\ name # Str_Unknown
                   THEN name ELSE existing.name,
          genre |-> existing.genre \o genreList,
          image |-> IF ~Truthy(existing.image) /\ Truthy(image)
                    THEN image ELSE existing.image,
          spotify |-> IF ~Truthy(existing.spotify) /\ Truthy(spotify)
                      THEN spotify ELSE existing.spotify ]

\* the merge branch (page.tsx 141-154)
MergeNode(existing, a) ==
    LET genreList == ResolveGenreList(a)
        image == ResolveImage(a)
        spotify == ResolveSpotify(a)
        name == ResolveName(a)
    IN  [ id |-> existing.id,
          name |-> IF existing.name = Str_Unknown /\ name # Str_Unknown
                   THEN name ELSE existing.name,
          genre |-> Dedupe(existing.genre \o genreList),
          image |-> IF ~Truthy(existing.image) /\ Truthy(image)
                    THEN image ELSE existing.image,
          spotify |-> IF ~Truthy(existing.spotify) /\ Truthy(spotify)
                      THEN spotify ELSE existing.spotify ]

\* a build that keeps one node per record (no merge on an id seen before)
NormalizeStepNoMerge(nodeById, a) ==
    LET id == ResolveId(a)
    IN  IF ~Truthy(id) THEN nodeById ELSE Append(nodeById, MakeNode(a, id))

\* one iteration of artistsRaw.forEach (page.tsx 105-155); nodeById is the
\* object's entries in key insertion order
NormalizeStep(nodeById, a) ==
    LET id == ResolveId(a)
        k == IndexOfId(nodeById, id)
    IN  IF ~Truthy(id) THEN nodeById
        ELSE IF k = 0 THEN Append(nodeById, MakeNode(a, id))
        ELSE [nodeById EXCEPT ![k] = MergeNode(nodeById[k], a)]

RECURSIVE NodeById(_)
NodeById(raw) ==
    IF raw = <<>> THEN <<>>
    ELSE NormalizeStep(NodeById(SubSeq(raw, 1, Len(raw) - 1)), raw[Len(raw)])

\* a property key that is a canonical array index ("0", "7", "12", not "07")
IsArrayIndex(k) ==
    /\ Len(k) \in 1..9
    /\ \A i \in 1..Len(k) : k[i] \in 48..57
    /\ (Len(k) = 1 \/ k[1] # 48)

RECURSIVE NumVal(_)
NumVal(k) ==
    IF k = <<>> THEN 0
    ELSE 10 * NumVal(SubSeq(k, 1, Len(k) - 1)) + (k[Len(k)] - 48)

RECURSIVE SortByIndexKey(_)
SortByIndexKey(s) ==
    IF s = <<>> THEN <<>>
    ELSE LET m == CHOOSE i \in 1..Len(s) :
                      \A j \in 1..Len(s) : NumVal(s[i].id) <= NumVal(s[j].id)
         IN  <<s[m]>> \o SortByIndexKey(SubSeq(s, 1, m - 1) \o SubSeq(s, m + 1, Len(s)))

IsIndexNode(n) == IsArrayIndex(n.id)
IsNamedNode(n) == ~IsArrayIndex(n.id)

\* Object.values: array-index keys ascending, then the other keys in
\* insertion order (page.tsx 157)
ObjectValues(nodeById) ==
    SortByIndexKey(SelectSeq(nodeById, IsIndexNode)) \o SelectSeq(nodeById, IsNamedNode)

Normalize(raw) == ObjectValues(NodeById(raw))

(***************************************************************************)
(* page.tsx, Effect 1 step 4: links from shared genres.                    *)
(***************************************************************************)
\* strongKey (page.tsx 195-196, part_003 454-455)
strongKey(a, b) ==
    IF StrLess(a, b) THEN a \o Str_sep \o b ELSE b \o Str_sep \o a

lowerGenres(arr) == [i \in 1..Len(arr) |-> ToLowerCase(arr[i])]

MakeLink(a, b, genre, strength) ==
    [ source |-> a, target |-> b, sourceId |-> a, targetId |-> b,
      genre |-> genre, strength |-> strength ]

NoLinks == [links |-> <<>>, softLinks |-> <<>>, keys |-> {}]

\* the body of the inner loop for the pair (a, b) (page.tsx 204-242)
LinkStep(st, a, b) ==
    LET g1 == lowerGenres(a.genre)
        g2 == lowerGenres(b.genre)
        overlap == SelectSeq(g1, LAMBDA g : InSeq(g, g2))
        key == strongKey(a.id, b.id)
        primary1 == ToLowerCase(g1[1])
        primary2 == ToLowerCase(g2[1])
    IN  IF g1 = <<>> \/ g2 = <<>> THEN st
        ELSE IF overlap = <<>> THEN st
        ELSE IF Truthy(primary1) /\ primary1 = primary2
        THEN IF key \in st.keys THEN st
             ELSE [st EXCEPT !.keys = @ \cup {key},
                             !.links = Append(@, MakeLink(a.id, b.id, primary1,
                                                          Len(overlap)))]
        ELSE [st EXCEPT !.softLinks = Append(@, MakeLink(a.id, b.id,
                                                 Str_soft_related, Len(overlap)))]

\* for (i ...) for (j = i + 1 ...) (page.tsx 203-244), from the pair (i, j) on
RECURSIVE LinkLoop(_, _, _, _)
LinkLoop(nodes, i, j, st) ==
    IF i > Len(nodes) THEN st
    ELSE IF j > Len(nodes) THEN LinkLoop(nodes, i + 1, i + 2, st)
    ELSE LinkLoop(nodes, i, j + 1, LinkStep(st, nodes[i], nodes[j]))

\* the graph page.tsx builds from a response
GenreOverlapGraph(raw) ==
    LET nodes == Normalize(raw)
        st == LinkLoop(nodes, 1, 2, NoLinks)
    IN  [ variant |-> "genreOverlap", nodes |-> nodes,
          links |-> st.links, softLinks |-> st.softLinks ]

NoGraph == [variant |-> "none", nodes |-> <<>>, links |-> <<>>, softLinks |-> <<>>]

(***************************************************************************)
(* Connection variant (part_003, second component): nodes one per record,  *)
(* strong links from connection records, soft links from keyword overlap.  *)
(***************************************************************************)
NoNumber == [t |-> "undefined", v |-> 0]

\* A connection record, its two artist ids present under each alias
RawConn(s, t) ==
    [ artist_1_id_text |-> s, artist_1_id |-> Absent,
      artist_2_id_text |-> t, artist_2_id |-> Absent,
      artist_1 |-> s, artist_2 |-> t,
      genre_list_text |-> <<>>, genre_text |-> Absent, genre |-> Absent,
      connection_strength_number |-> NoNumber ]

RawConns ==
    { RawConn(p[1], p[2]) : p \in
        { <<Str_a, Str_b>>, <<Str_b, Str_a>>, <<Str_a, Str_a>>, <<Str_a, Str_z>>,
          <<Str_z, Str_b>>, <<Absent, Str_b>> } }

\* artist records of the connection variants
ConnArtists ==
    { RawArtist(Str_a, NameOf(Str_a), <<Str_deep_house>>),
      RawArtist(Str_a, NameOf(Str_a), <<Str_tech_house, Str_house>>),
      RawArtist(Str_b, NameOf(Str_b), <<Str_tech_house, Str_house>>),
      RawArtist(Absent, Absent, <<Str_house>>) }

\* the values String(Math.random()) may take
RandomIds == {Str_r1, Str_r2}

\* the records that reach the String(Math.random()) fallback
IdLess(raw) == { i \in 1..Len(raw) : ~Truthy(ResolveId(raw[i])) }

\* artistsRaw.map (part_003 379-414); rnd[i] is what Math.random gives at record i
ConnNodes(raw, rnd) ==
    [i \in 1..Len(raw) |->
        MakeNode(raw[i], IF i \in IdLess(raw) THEN rnd[i] ELSE ResolveId(raw[i]))]

\* nodeById[id] is set (part_003 416-419)
HasNode(nodes, id) == \E i \in 1..Len(nodes) : nodes[i].id = id

\* one iteration of connectionsRaw.forEach (part_003 458-489)
ConnStep(st, nodes, c) ==
    LET sourceId == Or(c.artist_1_id_text, c.artist_1_id)
        targetId == Or(c.artist_2_id_text, c.artist_2_id)
        key == strongKey(sourceId, targetId)
        genreValue == Or(IF c.genre_list_text # <<>> THEN c.genre_list_text[1] ELSE Absent,
                         Or(c.genre_text, Str_unknown))
        strength == IF c.connection_strength_number.t = "undefined"
                    THEN 1 ELSE c.connection_strength_number.v
    IN  IF ~Truthy(sourceId) \/ ~Truthy(targetId) THEN st
        ELSE IF ~HasNode(nodes, sourceId) \/ ~HasNode(nodes, targetId) THEN st
        ELSE IF key \in st.keys THEN st
        ELSE [st EXCEPT !.keys = @ \cup {key},
                        !.links = Append(@, MakeLink(sourceId, targetId,
                                                     ToLowerCase(genreValue), strength))]

RECURSIVE ConnLoop(_, _, _)
ConnLoop(nodes, conns, st) ==
    IF conns = <<>> THEN st
    ELSE ConnLoop(nodes, Tail(conns), ConnStep(st, nodes, Head(conns)))

\* hasKeywordOverlap (part_003 499-503)
hasKeywordOverlap(g1, g2) ==
    Words(ToLowerCase(g1)) \cap Words(ToLowerCase(g2)) # {}

\* a loop body that does not look the pair up among the strong keys
SoftStepNoStrongCheck(st, a, b) ==
    LET g1 == IF a.genre = <<>> THEN <<>> ELSE ToLowerCase(a.genre[1])
        g2 == IF b.genre = <<>> THEN <<>> ELSE ToLowerCase(b.genre[1])
    IN  IF ~Truthy(g1) \/ ~Truthy(g2) \/ g1 = g2 \/ ~hasKeywordOverlap(g1, g2) THEN st
        ELSE [st EXCEPT !.softLinks = Append(@, MakeLink(a.id, b.id,
                                                 Str_soft_related, 1))]

\* the body of the soft-link loop for the pair (a, b) (part_003 507-522)
SoftStep(st, a, b) ==
    LET g1 == IF a.genre = <<>> THEN <<>> ELSE ToLowerCase(a.genre[1])
        g2 == IF b.genre = <<>> THEN <<>> ELSE ToLowerCase(b.genre[1])
        key == strongKey(a.id, b.id)
    IN  IF ~Truthy(g1) \/ ~Truthy(g2) THEN st
        ELSE IF g1 = g2 THEN st
        ELSE IF ~hasKeywordOverlap(g1, g2) THEN st
        ELSE IF key \in st.keys THEN st
        ELSE [st EXCEPT !.softLinks = Append(@, MakeLink(a.id, b.id,
                                                 Str_soft_related, 1))]

RECURSIVE SoftLoop(_, _, _, _)
SoftLoop(nodes, i, j, st) ==
    IF i > Len(nodes) THEN st
    ELSE IF j > Len(nodes) THEN SoftLoop(nodes, i + 1, i + 2, st)
    ELSE SoftLoop(nodes, i, j + 1, SoftStep(st, nodes[i], nodes[j]))

\* the graph the connection variant builds from its two responses
ConnectionGraph(raw, conns, rnd) ==
    LET nodes == ConnNodes(raw, rnd)
        strong == ConnLoop(nodes, conns, NoLinks)
        st == SoftLoop(nodes, 1, 2, strong)
    IN  [ variant |-> "connection", nodes |-> nodes,
          links |-> st.links, softLinks |-> st.softLinks ]

(***************************************************************************)
(* Connection variant with component state (part_001): loadData.           *)
(***************************************************************************)
Str_undefined == <<117, 110, 100, 101, 102, 105, 110, 101, 100>>  \* "undefined"

\* artistJson.map (part_001 59-69); an absent field is undefined
LoadArtists(raw) ==
    [i \in 1..Len(raw) |->
        [ id |-> IF Truthy(raw[i].id) THEN raw[i].id
                 ELSE IF Truthy(raw[i].uid) THEN raw[i].uid ELSE Str_undefined,
          name |-> raw[i].name,
          genre |-> IF raw[i].genre.t = "array" THEN raw[i].genre.v ELSE <<>>,
          image |-> raw[i].image_url,
          spotify |-> raw[i].spotify_id ]]

IsStringPair(c) == Truthy(c.artist_1) /\ Truthy(c.artist_2)

\* connJson.filter(...).map(...) (part_001 71-90)
LoadLinks(conns) ==
    LET kept == SelectSeq(conns, IsStringPair)
    IN  [i \in 1..Len(kept) |->
            MakeLink(kept[i].artist_1, kept[i].artist_2,
                     IF Truthy(kept[i].genre) THEN ToLowerCase(kept[i].genre)
                     ELSE Str_unknown, 1)]

\* what loadData hands to setNodes / setLinks (part_001 92-93)
LoadDataGraph(raw, conns) ==
    [ variant |-> "loadData", nodes |-> LoadArtists(raw),
      links |-> LoadLinks(conns), softLinks |-> <<>> ]

(***************************************************************************)
(* Genre-chain variant (part_000, first component): nodes deduplicated by  *)
(* id (first record wins), genre kept as one comma-separated string, and   *)
(* a chain of links through each primary-genre group.                      *)
(***************************************************************************)
\* Array.prototype.join(", ")
RECURSIVE JoinComma(_)
JoinComma(list) ==
    IF list = <<>> THEN <<>>
    ELSE IF Len(list) = 1 THEN list[1]
    ELSE list[1] \o Str_comma_sp \o JoinComma(Tail(list))

\* s.split(",")[0]
BeforeComma(s) ==
    IF \E i \in 1..Len(s) : s[i] = 44
    THEN SubSeq(s, 1, (CHOOSE i \in 1..Len(s) :
                          s[i] = 44 /\ \A j \in 1..(i - 1) : s[j] # 44) - 1)
    ELSE s

\* primary genre of a chain node (part_000 96)
ChainPrimary(n) == Or(Trim(BeforeComma(n.genre)), Str_Unknown)

\* one iteration of artistsRaw.forEach (part_000 46-80)
ChainNodeStep(artistMap, a) ==
    LET spotifyId == Or(a.spotify_id, Or(a.spotify_id_text, Or(a.id_text,
                        Or(a.artist_id, a.id))))
        genreList == IF a.genre.t = "array" \/ (a.genre.t = "string" /\ Truthy(a.genre.v))
                     THEN a.genre
                     ELSE [t |-> "array", v |-> a.genre_list_text]
        genreString == IF genreList.t = "array" /\ genreList.v # <<>>
                       THEN JoinComma(genreList.v) ELSE Str_Unknown
    IN  IF ~Truthy(spotifyId) THEN artistMap
        ELSE IF IndexOfId(artistMap, spotifyId) # 0 THEN artistMap
        ELSE Append(artistMap,
                    [ id |-> spotifyId, name |-> Or(a.name, Or(a.name_text, Str_Unknown)),
                      image |-> Or(a.image_url, a.image_url_text),
                      genre |-> genreString ])

RECURSIVE ChainArtistMap(_)
ChainArtistMap(raw) ==
    IF raw = <<>> THEN <<>>
    ELSE ChainNodeStep(ChainArtistMap(SubSeq(raw, 1, Len(raw) - 1)), raw[Len(raw)])

\* the order of two characters at the first level of the collation: letters
\* without their case
RECURSIVE PrimaryCompare(_, _)
PrimaryCompare(a, b) ==
    IF a = <<>> /\ b = <<>> THEN 0
    ELSE IF a = <<>> THEN -1
    ELSE IF b = <<>> THEN 1
    ELSE LET x == ToLowerCase(<<Head(a)>>)[1]
             y == ToLowerCase(<<Head(b)>>)[1]
         IN  IF x < y THEN -1 ELSE IF x > y THEN 1
             ELSE PrimaryCompare(Tail(a), Tail(b))

\* the case level: at the first difference the lower-case letter comes first
RECURSIVE CaseCompare(_, _)
CaseCompare(a, b) ==
    IF a = <<>> \/ b = <<>> THEN 0
    ELSE IF Head(a) = Head(b) THEN CaseCompare(Tail(a), Tail(b))
    ELSE IF Head(a) > Head(b) THEN -1 ELSE 1

\* String.prototype.localeCompare on ASCII letters, digits and spaces
localeCompare(a, b) ==
    IF PrimaryCompare(a, b) # 0 THEN PrimaryCompare(a, b) ELSE CaseCompare(a, b)

\* insert n into the sorted sequence s after every element not greater than it
RECURSIVE InsertByName(_, _)
InsertByName(s, n) ==
    IF s = <<>> THEN <<n>>
    ELSE IF localeCompare(s[Len(s)].name, n.name) <= 0 THEN Append(s, n)
    ELSE Append(InsertByName(SubSeq(s, 1, Len(s) - 1), n), s[Len(s)])

\* [...groupNodes].sort((a, b) => a.name.localeCompare(b.name)), a stable sort
RECURSIVE SortByName(_)
SortByName(s) ==
    IF s = <<>> THEN <<>>
    ELSE InsertByName(SortByName(SubSeq(s, 1, Len(s) - 1)), s[Len(s)])

\* the chain through one sorted group (part_000 109-116)
ChainLinks(sorted, g) ==
    [i \in 1..(Len(sorted) - 1) |->
        [ source |-> sorted[i].id, target |-> sorted[i + 1].id,
          sourceId |-> sorted[i].id, targetId |-> sorted[i + 1].id,
          genre |-> g, strength |-> 1 ]]

\* the keys of genreGroups in insertion order (part_000 94-99)
ChainGroupKeys(nodes) == Dedupe([i \in 1..Len(nodes) |-> ChainPrimary(nodes[i])])

\* Object.entries(genreGroups).forEach (part_000 103-117), from group k on
RECURSIVE ChainGroupLoop(_, _, _)
ChainGroupLoop(nodes, keys, k) ==
    IF k > Len(keys) THEN <<>>
    ELSE LET groupNodes == SelectSeq(nodes, LAMBDA n : ChainPrimary(n) = keys[k])
         IN  (IF Len(groupNodes) < 2 THEN <<>>
              ELSE ChainLinks(SortByName(groupNodes), keys[k]))
             \o ChainGroupLoop(nodes, keys, k + 1)

\* the graph the genre-chain variant builds from a response
GenreChainGraph(raw) ==
    LET nodes == ObjectValues(ChainArtistMap(raw))
    IN  [ variant |-> "genreChain", nodes |-> nodes,
          links |-> ChainGroupLoop(nodes, ChainGroupKeys(nodes), 1),
          softLinks |-> <<>> ]

(***************************************************************************)
(* The builders applied to bounded inputs.                                 *)
(***************************************************************************)
BuildInputs ==
    { <<raw, <<>>>> : raw \in SeqsUpTo(RawArtists, MaxRecords) }
    \cup (SeqsUpTo(ConnArtists, MaxConnArtists) \X SeqsUpTo(RawConns, MaxConnections))

\* no simulation has been created
NoSimulation == [state |-> "none", ticks |-> 0, alpha |-> 0]

Idle ==
    /\ fetchState = "pending" /\ mounted = TRUE /\ destroy = FALSE
    /\ selRefs = FALSE /\ searchTerm = <<>>
    /\ activeGenre = [set |-> FALSE, genre |-> <<>>]
    /\ legendItems = <<>> /\ nodeOpacity = <<>> /\ linkOpacity = <<>>
    /\ softLinkOpacity = <<>>
    /\ simulation = NoSimulation
    /\ tooltip = FALSE
    /\ position = <<>> /\ nodeAt = <<>> /\ linkAt = <<>> /\ softLinkAt = <<>>
    /\ hovered = 0 /\ nodeRadius = <<>> /\ tooltipOpacity = 0
    /\ activeNode = [set |-> FALSE, id |-> <<>>] /\ fixed = <<>>
    /\ alphaTarget = 0 /\ gestures = <<>>

InitBuild ==
    /\ \E in \in BuildInputs : artistsRaw = in[1] /\ connectionsRaw = in[2]
    /\ graph = NoGraph
    /\ Idle

viewVars == <<fetchState, mounted, destroy, selRefs, searchTerm, activeGenre,
              legendItems, nodeOpacity, linkOpacity, softLinkOpacity,
              simulation, tooltip, sceneVars, pointerVars>>

\* page.tsx fetches artists only and builds from shared genres
BuildGenreOverlap ==
    /\ graph = NoGraph /\ connectionsRaw = <<>> /\ artistsRaw # <<>>
    /\ graph' = GenreOverlapGraph(artistsRaw)
    /\ UNCHANGED <<artistsRaw, connectionsRaw, viewVars>>

\* part_000 fetches artists only and chains each genre group
BuildGenreChain ==
    /\ graph = NoGraph /\ connectionsRaw = <<>> /\ artistsRaw # <<>>
    /\ graph' = GenreChainGraph(artistsRaw)
    /\ UNCHANGED <<artistsRaw, connectionsRaw, viewVars>>

\* part_003 fetches artists and connections
BuildConnection ==
    /\ graph = NoGraph /\ artistsRaw # <<>>
    /\ \E rnd \in [IdLess(artistsRaw) -> RandomIds] :
           graph' = ConnectionGraph(artistsRaw, connectionsRaw, rnd)
    /\ UNCHANGED <<artistsRaw, connectionsRaw, viewVars>>

\* part_001 loads artists and connections into component state
LoadData ==
    /\ graph = NoGraph
    /\ graph' = LoadDataGraph(artistsRaw, connectionsRaw)
    /\ UNCHANGED <<artistsRaw, connectionsRaw, viewVars>>

NextBuild == BuildGenreOverlap \/ BuildGenreChain \/ BuildConnection \/ LoadData

SpecBuild == InitBuild /\ [][NextBuild]_vars

(***************************************************************************)
(* The builders applied to records as an API may return them: ids under    *)
(* any of the candidate fields, a genre that is one string or is missing,  *)
(* a null in place of a record, a value that is not a string in place of a *)
(* name or of a genre.  A TypeError ends the async body: nothing is built. *)
(***************************************************************************)
MaxRichRecords == 2    \* records per response

Str_u == <<117>>  \* "u"
Str_a_b == <<97, 44, 98>>  \* "a,b"

\* a value that is not a string (a number): it has no toLowerCase
NotAString == <<-1>>
IsString(s) == \A i \in 1..Len(s) : s[i] >= 0

\* null in place of a record
NullRecord == [null |-> TRUE]
IsNull(a) == DOMAIN a = {"null"}

\* a record that has its id under the candidate fields numbered in `present`
IdRecord(present) ==
    [ RawArtist(Absent, Str_bob, <<Str_house>>) EXCEPT
        !.artist_id_text  = IF 1 \in present THEN Str_a ELSE Absent,
        !.artist_id       = IF 2 \in present THEN Str_b ELSE Absent,
        !.spotify_id_text = IF 3 \in present THEN Str_7 ELSE Absent,
        !.spotify_id      = IF 4 \in present THEN Str_z ELSE Absent,
        !.uid             = IF 5 \in present THEN Str_u ELSE Absent ]

IdPresence == { {1, 2, 3, 4, 5}, {2, 3, 4, 5}, {3, 4, 5}, {4, 5}, {5}, {}, {2, 5} }

\* a record without genre_list_text whose genre field is g
GenreRecord(g) == [ RawArtist(Str_a, Str_bob, <<>>) EXCEPT !.genre = g ]

RichRecords ==
    { IdRecord(p) : p \in IdPresence }
    \cup { GenreRecord(g) : g \in { [t |-> "string", v |-> Str_a_b],
                                    [t |-> "string", v |-> Str_house],
                                    [t |-> "undefined", v |-> Absent] } }
    \cup { NullRecord,
           RawArtist(Str_b, Str_Bob, <<Str_house, NotAString>>),
           RawArtist(Str_7, NotAString, <<Str_house>>) }

\* what is left when the async body ended with an exception
ThrewGraph(variant) ==
    [variant |-> variant, nodes |-> <<>>, links |-> <<>>, softLinks |-> <<>>]

\* a.artist_id_text on null (page.tsx 107, part_003 382)
NormalizeThrows(raw) == \E i \in 1..Len(raw) : IsNull(raw[i])

\* (n.genre[0] ?? "unknown").toLowerCase() (page.tsx 161-163, part_003 423)
PaletteThrows(nodes) ==
    \E i \in 1..Len(nodes) : nodes[i].genre # <<>> /\ ~IsString(nodes[i].genre[1])

\* lowerGenres(a.genre) for every node of the outer loop (page.tsx 199-205)
LinkThrows(nodes) ==
    \E i \in 1..Len(nodes) : \E k \in 1..Len(nodes[i].genre) :
        ~IsString(nodes[i].genre[k])

\* the graph page.tsx builds, or nothing when the body threw
GenreOverlapBuild(raw) ==
    IF NormalizeThrows(raw) THEN ThrewGraph("genreOverlapThrew")
    ELSE IF PaletteThrows(Normalize(raw)) \/ LinkThrows(Normalize(raw))
    THEN ThrewGraph("genreOverlapThrew")
    ELSE GenreOverlapGraph(raw)

InitRecord ==
    /\ artistsRaw \in SeqsUpTo(RichRecords, MaxRichRecords)
    /\ connectionsRaw = <<>>
    /\ graph = NoGraph
    /\ Idle

\* page.tsx builds from the records (page.tsx 102-244)
BuildRecords ==
    /\ graph = NoGraph /\ artistsRaw # <<>>
    /\ graph' = GenreOverlapBuild(artistsRaw)
    /\ UNCHANGED <<artistsRaw, connectionsRaw, viewVars>>

\* part_003 builds from the records and no connection (part_003 379-524)
MapRecords ==
    /\ graph = NoGraph /\ artistsRaw # <<>>
    /\ IF NormalizeThrows(artistsRaw)
       THEN graph' = ThrewGraph("connectionThrew")
       ELSE \E rnd \in [IdLess(artistsRaw) -> RandomIds] :
               graph' = IF PaletteThrows(ConnNodes(artistsRaw, rnd))
                        THEN ThrewGraph("connectionThrew")
                        ELSE ConnectionGraph(artistsRaw, <<>>, rnd)
    /\ UNCHANGED <<artistsRaw, connectionsRaw, viewVars>>

NextRecord == BuildRecords \/ MapRecords

SpecRecord == InitRecord /\ [][NextRecord]_vars

(***************************************************************************)
(* page.tsx, Effect 2: search and genre filter.  Opacities are percents.   *)
(* d3's transition.attr evaluates a function value at once, for each       *)
(* element in order, so the node pass fills visibleIds before the two link *)
(* passes read it.                                                         *)
(***************************************************************************)
NodeVisibleOpacity == 100
NodeDimOpacity == 15
LinkVisibleOpacity == 90
SoftLinkVisibleOpacity == 50
LinkHiddenOpacity == 5
LinkInitialOpacity == 80
SoftLinkInitialOpacity == 50

NullGenre == [set |-> FALSE, genre |-> <<>>]
SomeGenre(g) == [set |-> TRUE, genre |-> g]

\* (d.genre[0] ?? "unknown").toLowerCase()
PrimaryGenre(d) == ToLowerCase(IF d.genre = <<>> THEN Str_unknown ELSE d.genre[1])

\* a term taken from the search box as typed
FilterTermUntrimmed(search) == ToLowerCase(search)

\* const term = searchTerm.trim().toLowerCase() (page.tsx 611)
FilterTerm(search) == ToLowerCase(Trim(search))

\* activeGenre ? activeGenre.toLowerCase() : null (page.tsx 612)
GenreFilter(active) ==
    IF active.set /\ Truthy(active.genre) THEN SomeGenre(ToLowerCase(active.genre))
    ELSE NullGenre

\* the value of `visible` for node d (page.tsx 620-631)
NodeVisible(d, term, genreFilter) ==
    LET matchesName == Includes(ToLowerCase(d.name), term)
        matchesGenreText == \E i \in 1..Len(d.genre) : Includes(ToLowerCase(d.genre[i]), term)
        matchesSearch == term = <<>> \/ matchesName \/ matchesGenreText
        matchesLegend == ~genreFilter.set \/ PrimaryGenre(d) = genreFilter.genre
    IN  matchesSearch /\ matchesLegend

\* nodeSel...attr("opacity", fn): the opacities and the ids added to visibleIds
NodePass(nodes, term, genreFilter) ==
    [ opacity |-> [i \in 1..Len(nodes) |->
                      IF NodeVisible(nodes[i], term, genreFilter)
                      THEN NodeVisibleOpacity ELSE NodeDimOpacity],
      visibleIds |-> { nodes[i].id : i \in
                         { k \in 1..Len(nodes) : NodeVisible(nodes[k], term, genreFilter) } } ]

\* linkSel...attr("stroke-opacity", fn) (page.tsx 636-664)
LinkPass(links, visibleIds, full) ==
    [i \in 1..Len(links) |->
        IF links[i].source \in visibleIds /\ links[i].target \in visibleIds
        THEN full ELSE LinkHiddenOpacity]

\* an effect whose link passes run while visibleIds is still empty
FilterEffectLinksFirst(g, search, active) ==
    LET np == NodePass(g.nodes, FilterTerm(search), GenreFilter(active))
    IN  [ node |-> np.opacity,
          link |-> LinkPass(g.links, {}, LinkVisibleOpacity),
          soft |-> LinkPass(g.softLinks, {}, SoftLinkVisibleOpacity) ]

\* the three passes of Effect 2 (page.tsx 611-664)
FilterEffect(g, search, active) ==
    LET np == NodePass(g.nodes, FilterTerm(search), GenreFilter(active))
    IN  [ node |-> np.opacity,
          link |-> LinkPass(g.links, np.visibleIds, LinkVisibleOpacity),
          soft |-> LinkPass(g.softLinks, np.visibleIds, SoftLinkVisibleOpacity) ]

\* Effect 2 after a render with the state (search, active) (page.tsx 605-665)
Effect2(search, active) ==
    IF ~selRefs
    THEN UNCHANGED <<nodeOpacity, linkOpacity, softLinkOpacity>>
    ELSE LET fe == FilterEffect(graph, search, active)
         IN  /\ nodeOpacity' = [i \in 1..Len(nodeOpacity) |-> fe.node[i]]
             /\ linkOpacity' = [i \in 1..Len(linkOpacity) |-> fe.link[i]]
             /\ softLinkOpacity' = [i \in 1..Len(softLinkOpacity) |-> fe.soft[i]]

(***************************************************************************)
(* page.tsx: the component from mount to unmount.                          *)
(***************************************************************************)
\* artist records a response of the page may hold
FetchedArtists ==
    { RawArtist(Str_a, Str_bob, <<Str_house>>),
      RawArtist(Str_b, Str_Bob, <<Str_House>>),
      RawArtist(Str_b, Str_Bob, <<Str_tech_house, Str_house>>),
      RawArtist(Str_7, Str_Amy, <<>>),
      RawArtist(Str_a, Str_bob, <<Absent>>),
      RawArtist(Absent, Absent, <<Str_house>>) }

Str_sp_Bo == <<32, 66, 111>>  \* " Bo"

\* what the user may have in the search box
SearchTerms == { <<>>, Str_space, Str_sp_Bo, Str_house }

\* Array.from(new Set(primaryGenres)) (page.tsx 161-164)
uniqueGenres(nodes) == Dedupe([i \in 1..Len(nodes) |-> PrimaryGenre(nodes[i])])

\* window.innerWidth; the widths are multiples of every band count the
\* model reaches, so that the division of bandStep is exact
Widths == {1200, 1440}

\* const bandStep = width / (uniqueGenres.length + 1) (page.tsx 185)
bandStep(width, genreCount) == width \div (genreCount + 1)

\* a layout that counts the bands from the left edge
genreCenterXFromZero(nodes, width) ==
    LET genres == uniqueGenres(nodes)
    IN  [i \in 1..Len(genres) |->
            [genre |-> genres[i], x |-> bandStep(width, Len(genres)) * (i - 1)]]

\* genreCenterX[g] = bandStep * (i + 1), i counted from 0 (page.tsx 186-189)
genreCenterX(nodes, width) ==
    LET genres == uniqueGenres(nodes)
    IN  [i \in 1..Len(genres) |->
            [genre |-> genres[i], x |-> bandStep(width, Len(genres)) * ((i - 1) + 1)]]

\* NODE_RADIUS and the radius of a hovered node, NODE_RADIUS * 1.3
NodeRadius == 20
NodeRadiusHover == 26

\* d3.forceSimulation cools geometrically: alpha starts at 1, is multiplied by
\* 1 - alphaDecay at every tick (alphaTarget is 0) and the timer stops once
\* alpha < alphaMin, after about 300 ticks.  The model keeps the geometric
\* decay and scales it to MaxTicks ticks: alpha is halved at every tick,
\* alphaMin is 1 and alpha starts at 2^(MaxTicks - 1).
AlphaMin == 1
AlphaDecayDivisor == 2
AlphaStart == 2 ^ (MaxTicks - 1)

\* where forceSimulation(nodes) puts node i before the first tick; the
\* model keeps of the phyllotaxis arrangement that the nodes are apart and
\* away from the origin
InitialPosition(i) == <<10 * i, 10 * i + 5>>

\* how far the forces of one tick may have carried the nodes
Drifts == {1, 2}

\* the position of node i after a tick that carried the nodes by d
Moved(i, d) == <<InitialPosition(i)[1] + d, InitialPosition(i)[2] + d * i>>

\* the x1, y1, x2, y2 the tick handler gives to the first n lines of an edge
\* array (page.tsx 504-530).  forceLink(links) has replaced source and target
\* of the edges it was given by the node objects (linked); the edges of an
\* array it was not given keep their id strings, for which the handler
\* yields 0.
TickLines(links, linked, nodes, pos, n) ==
    [k \in 1..n |->
        IF linked
        THEN LET src == IndexOfId(nodes, links[k].source)
                 tgt == IndexOfId(nodes, links[k].target)
             IN  <<pos[src][1], pos[src][2], pos[tgt][1], pos[tgt][2]>>
        ELSE <<0, 0, 0, 0>>]

\* after mount: Effect 1 awaits the fetch, Effect 2 found the refs null
Init ==
    /\ artistsRaw = <<>> /\ connectionsRaw = <<>> /\ graph = NoGraph
    /\ Idle

\* a failure path that has appended the tooltip before it returns
FetchFailPartial ==
    /\ fetchState = "pending"
    /\ fetchState' = "failed"
    /\ tooltip' = TRUE
    /\ UNCHANGED <<pointerVars, artistsRaw, connectionsRaw, graph, mounted, destroy, selRefs,
                   searchTerm, activeGenre, legendItems, nodeOpacity, linkOpacity,
                   softLinkOpacity, simulation, sceneVars>>

\* the fetch rejects or answers with a non-success status (page.tsx 79-95)
FetchFail ==
    /\ fetchState = "pending"
    /\ fetchState' = "failed"
    /\ UNCHANGED <<pointerVars, artistsRaw, connectionsRaw, graph, mounted, destroy, selRefs,
                   searchTerm, activeGenre, legendItems, nodeOpacity, linkOpacity,
                   softLinkOpacity, simulation, tooltip, sceneVars>>

\* the rest of the async body once the response is there (page.tsx 97-594).
\* After an unmount svgRef.current is null: the selections are empty, the
\* tooltip is still appended to the body and the simulation still starts.
BuildAfterFetch(resp) ==
    IF resp = <<>>
    THEN UNCHANGED <<graph, destroy, selRefs, legendItems, nodeOpacity,
                     linkOpacity, softLinkOpacity, simulation, tooltip, sceneVars>>
    ELSE LET g == GenreOverlapGraph(resp)
         IN  /\ graph' = g
             /\ legendItems' = IF mounted THEN uniqueGenres(g.nodes) ELSE legendItems
             /\ tooltip' = TRUE
             /\ linkOpacity' = IF mounted
                               THEN [i \in 1..Len(g.links) |-> LinkInitialOpacity]
                               ELSE <<>>
             /\ softLinkOpacity' = IF mounted
                                   THEN [i \in 1..Len(g.softLinks) |-> SoftLinkInitialOpacity]
                                   ELSE <<>>
             /\ nodeOpacity' = IF mounted
                               THEN [i \in 1..Len(g.nodes) |-> NodeVisibleOpacity]
                               ELSE <<>>
             /\ selRefs' = TRUE
             /\ nodeRadius' = IF mounted
                              THEN [i \in 1..Len(g.nodes) |-> NodeRadius]
                              ELSE <<>>
             /\ nodeAt' = IF mounted
                          THEN [i \in 1..Len(g.nodes) |-> <<0, 0>>]
                          ELSE <<>>
             /\ linkAt' = IF mounted
                          THEN [i \in 1..Len(g.links) |-> <<0, 0, 0, 0>>]
                          ELSE <<>>
             /\ softLinkAt' = IF mounted
                              THEN [i \in 1..Len(g.softLinks) |-> <<0, 0, 0, 0>>]
                              ELSE <<>>
             /\ position' = [i \in 1..Len(g.nodes) |-> InitialPosition(i)]
             /\ simulation' = [state |-> "running", ticks |-> 0, alpha |-> AlphaStart]
             /\ destroy' = TRUE
             /\ UNCHANGED <<hovered, tooltipOpacity>>

\* the fetch answers with results and the body runs to its end
FetchResolve ==
    /\ fetchState = "pending"
    /\ \E resp \in SeqsUpTo(FetchedArtists, MaxFetched) :
        /\ fetchState' = "done"
        /\ artistsRaw' = resp
        /\ BuildAfterFetch(resp)
    /\ UNCHANGED <<pointerVars, connectionsRaw, mounted, searchTerm, activeGenre>>

\* a timer step that leaves alpha as it is
TickNoDecay ==
    /\ simulation.state = "running"
    /\ \E d \in Drifts :
        LET pos == [i \in 1..Len(position) |-> Moved(i, d)]
        IN  /\ position' = pos
            /\ nodeAt' = [i \in 1..Len(nodeAt) |-> pos[i]]
            /\ linkAt' = TickLines(graph.links, TRUE, graph.nodes, pos, Len(linkAt))
            /\ softLinkAt' = TickLines(graph.softLinks, FALSE, graph.nodes, pos,
                                       Len(softLinkAt))
    /\ UNCHANGED <<pointerVars, artistsRaw, connectionsRaw, graph, fetchState, mounted, destroy,
                   selRefs, searchTerm, activeGenre, legendItems, nodeOpacity,
                   linkOpacity, softLinkOpacity, simulation, tooltip, hovered,
                   nodeRadius, tooltipOpacity>>

\* one step of the simulation's timer (page.tsx 475-583): alpha decays, the
\* forces move the nodes, the tick handler copies the positions into the
\* scene, and the timer stops by itself once alpha is below alphaMin
Tick ==
    /\ simulation.state = "running"
    /\ simulation' = [state |-> IF simulation.alpha \div AlphaDecayDivisor < AlphaMin
                                THEN "converged" ELSE "running",
                      ticks |-> simulation.ticks + 1,
                      alpha |-> simulation.alpha \div AlphaDecayDivisor]
    /\ \E d \in Drifts :
        LET pos == [i \in 1..Len(position) |-> Moved(i, d)]
        IN  /\ position' = pos
            /\ nodeAt' = [i \in 1..Len(nodeAt) |-> pos[i]]
            /\ linkAt' = TickLines(graph.links, TRUE, graph.nodes, pos, Len(linkAt))
            /\ softLinkAt' = TickLines(graph.softLinks, FALSE, graph.nodes, pos,
                                       Len(softLinkAt))
    /\ UNCHANGED <<pointerVars, artistsRaw, connectionsRaw, graph, fetchState, mounted, destroy,
                   selRefs, searchTerm, activeGenre, legendItems, nodeOpacity,
                   linkOpacity, softLinkOpacity, tooltip, hovered, nodeRadius,
                   tooltipOpacity>>

\* the cleanup of Effect 1 (page.tsx 586-599)
Unmount ==
    /\ mounted
    /\ mounted' = FALSE
    /\ IF destroy
       THEN /\ tooltip' = FALSE
            /\ simulation' = [simulation EXCEPT !.state = "stopped"]
            /\ selRefs' = FALSE
       ELSE UNCHANGED <<tooltip, simulation, selRefs>>
    /\ UNCHANGED <<pointerVars, artistsRaw, connectionsRaw, graph, fetchState, destroy,
                   searchTerm, activeGenre, legendItems, nodeOpacity, linkOpacity,
                   softLinkOpacity, sceneVars>>

\* a search handler that also puts the nodes back where the layout started
SearchInputRestartsLayout ==
    /\ mounted
    /\ \E s \in SearchTerms \ {searchTerm} :
        /\ searchTerm' = s
        /\ Effect2(s, activeGenre)
    /\ position' = [i \in 1..Len(position) |-> InitialPosition(i)]
    /\ UNCHANGED <<pointerVars, artistsRaw, connectionsRaw, graph, fetchState, mounted,
                   destroy, selRefs, activeGenre, legendItems, simulation, tooltip,
                   nodeAt, linkAt, softLinkAt, hovered, nodeRadius, tooltipOpacity>>

\* onChange of the search box (page.tsx 694), the render and Effect 2
SearchInput ==
    /\ mounted
    /\ \E s \in SearchTerms \ {searchTerm} :
        /\ searchTerm' = s
        /\ Effect2(s, activeGenre)
    /\ UNCHANGED <<pointerVars, artistsRaw, connectionsRaw, graph, fetchState, mounted, destroy,
                   selRefs, activeGenre, legendItems, simulation, tooltip,
                   sceneVars>>

\* a legend handler that takes the genre as the artist's record spells it
LegendClickAsSpelled ==
    /\ mounted
    /\ \E k \in { n \in 1..Len(graph.nodes) : graph.nodes[n].genre # <<>> } :
        LET spelled == graph.nodes[k].genre[1]
            next == IF activeGenre = SomeGenre(spelled) THEN NullGenre
                    ELSE SomeGenre(spelled)
        IN  /\ activeGenre' = next
            /\ Effect2(searchTerm, next)
    /\ UNCHANGED <<pointerVars, artistsRaw, connectionsRaw, graph, fetchState, mounted,
                   destroy, selRefs, searchTerm, legendItems, simulation, tooltip,
                   sceneVars>>

\* onClick of a legend item (page.tsx 748-759), the render and Effect 2
LegendClick ==
    /\ mounted
    /\ \E k \in 1..Len(legendItems) :
        LET lower == ToLowerCase(legendItems[k])
            next == IF activeGenre = SomeGenre(lower) THEN NullGenre ELSE SomeGenre(lower)
        IN  /\ activeGenre' = next
            /\ Effect2(searchTerm, next)
    /\ UNCHANGED <<pointerVars, artistsRaw, connectionsRaw, graph, fetchState, mounted, destroy,
                   selRefs, searchTerm, legendItems, simulation, tooltip,
                   sceneVars>>

\* onClick of Reset (page.tsx 708-712); no render when nothing changes
ResetClick ==
    /\ mounted
    /\ searchTerm # <<>> \/ activeGenre # NullGenre
    /\ searchTerm' = <<>>
    /\ activeGenre' = NullGenre
    /\ Effect2(<<>>, NullGenre)
    /\ UNCHANGED <<pointerVars, artistsRaw, connectionsRaw, graph, fetchState, mounted, destroy,
                   selRefs, legendItems, simulation, tooltip, sceneVars>>

\* mouseover on circle i (page.tsx 390-404)
MouseOver ==
    /\ mounted /\ selRefs /\ hovered = 0
    /\ \E i \in 1..Len(nodeRadius) :
        /\ hovered' = i
        /\ nodeRadius' = [nodeRadius EXCEPT ![i] = NodeRadiusHover]
    /\ tooltipOpacity' = 100
    /\ UNCHANGED <<pointerVars, artistsRaw, connectionsRaw, graph, fetchState, mounted, destroy,
                   selRefs, searchTerm, activeGenre, legendItems, nodeOpacity,
                   linkOpacity, softLinkOpacity, simulation, tooltip, position,
                   nodeAt, linkAt, softLinkAt>>

\* mouseout of the hovered circle (page.tsx 410-416)
MouseOut ==
    /\ mounted /\ selRefs /\ hovered # 0
    /\ hovered' = 0
    /\ nodeRadius' = [nodeRadius EXCEPT ![hovered] = NodeRadius]
    /\ tooltipOpacity' = 0
    /\ UNCHANGED <<pointerVars, artistsRaw, connectionsRaw, graph, fetchState, mounted, destroy,
                   selRefs, searchTerm, activeGenre, legendItems, nodeOpacity,
                   linkOpacity, softLinkOpacity, simulation, tooltip, position,
                   nodeAt, linkAt, softLinkAt>>

Next ==
    \/ FetchFail
    \/ FetchResolve
    \/ Tick
    \/ Unmount
    \/ SearchInput
    \/ LegendClick
    \/ ResetClick

Spec == Init /\ [][Next]_vars

\* The hover handlers read and write hovered, nodeRadius and tooltipOpacity
\* only, and no other handler touches these: they are followed in a
\* specification of their own, over every graph the page builds and every
\* search term.
NextHover ==
    \/ FetchResolve
    \/ SearchInput
    \/ MouseOver
    \/ MouseOut

SpecHover == Init /\ [][NextHover]_vars

\* the simulation's timer keeps firing while the simulation runs
SpecLive == Spec /\ WF_vars(Tick)

(***************************************************************************)
(* Click and search highlight (part_000 first component, part_002 second   *)
(* component).  Both declare `let activeNode`, resetHighlight and          *)
(* highlightNode with the same bodies and differ in the radii and          *)
(* opacities, given here as a style.  nodeOpacity and linkOpacity hold the *)
(* "opacity" attribute of the circles and lines, in percent; a line is     *)
(* created without one, which shows as 100.                                *)
(***************************************************************************)
NullNode == [set |-> FALSE, id |-> <<>>]
SomeNode(id) == [set |-> TRUE, id |-> id]

\* baseRadius, baseRadius * highlightScale, the line opacity resetHighlight
\* sets and the one highlightNode gives the other lines (part_000 137-138,
\* 320, 376; 264 is 240 * 1.1)
ChainStyle == [base |-> 240, scaled |-> 264, rest |-> 70, dim |-> 20]

\* the same of part_002 (442-443, 620, 674)
SpotifyStyle == [base |-> 120, scaled |-> 132, rest |-> 80, dim |-> 30]

\* the attributes a handler hands to the circles and lines
Show(v) ==
    /\ nodeRadius' = v.r
    /\ nodeOpacity' = v.node
    /\ linkOpacity' = v.link

\* the scene as the build leaves it (part_000 192-221, part_002 487-516)
SceneAsBuilt(g, style) ==
    [ r |-> [i \in 1..Len(g.nodes) |-> style.base],
      node |-> [i \in 1..Len(g.nodes) |-> 100],
      link |-> [k \in 1..Len(g.links) |-> 100] ]

\* resetHighlight (part_000 313-321, part_002 618-621)
resetHighlight(g, style) ==
    [ r |-> [i \in 1..Len(g.nodes) |-> style.base],
      node |-> [i \in 1..Len(g.nodes) |-> 100],
      link |-> [k \in 1..Len(g.links) |-> style.rest] ]

\* what highlightNode shows for the selected id (part_000 332-376,
\* part_002 634-675)
HighlightOf(g, style, id) ==
    LET incident == { k \in 1..Len(g.links) :
                        g.links[k].source = id \/ g.links[k].target = id }
        connectedIds == { g.links[k].source : k \in incident }
                        \cup { g.links[k].target : k \in incident }
        lit == { i \in 1..Len(g.nodes) :
                   g.nodes[i].id = id \/ g.nodes[i].id \in connectedIds }
    IN  [ r |-> [i \in 1..Len(g.nodes) |->
                    IF i \in lit THEN style.scaled ELSE style.base],
          node |-> [i \in 1..Len(g.nodes) |-> IF i \in lit THEN 100 ELSE 50],
          link |-> [k \in 1..Len(g.links) |->
                       IF k \in incident THEN 100 ELSE style.dim] ]

\* highlightNode(selectedNode, event?) (part_000 323-377, part_002 623-676):
\* the active node is toggled off, any other node becomes the active one
highlightNode(style, id, event) ==
    IF activeNode.set /\ activeNode.id = id
    THEN /\ activeNode' = NullNode
         /\ Show(resetHighlight(graph, style))
         /\ tooltipOpacity' = 0
    ELSE /\ activeNode' = SomeNode(id)
         /\ tooltipOpacity' = IF event THEN 100 ELSE tooltipOpacity
         /\ Show(HighlightOf(graph, style, id))

\* nodes.find / nodes.filter(...)[0] of the search handlers: the position of
\* the first node whose name or genre holds value, 0 when there is none
\* (part_000 396-400, part_002 689-694)
FirstMatch(nodes, value) ==
    LET hit == { i \in 1..Len(nodes) :
                   \/ Includes(ToLowerCase(nodes[i].name), value)
                   \/ Includes(ToLowerCase(nodes[i].genre), value) }
    IN  IF hit = {} THEN 0 ELSE CHOOSE i \in hit : \A j \in hit : i <= j

Str_bo == <<98, 111>>  \* "bo"

\* what the user may have in the search box of these variants
HighlightSearchTerms == { <<>>, Str_space, Str_b, Str_bo, Str_house }

\* the state the highlight handlers leave alone
highlightFrame == <<artistsRaw, connectionsRaw, graph, fetchState, mounted,
                    destroy, selRefs, activeGenre, legendItems, softLinkOpacity,
                    tooltip, nodeAt, linkAt, softLinkAt, hovered, alphaTarget,
                    gestures>>

(***************************************************************************)
(* Genre-chain variant (part_000, first component): the view.              *)
(***************************************************************************)
InitChainView ==
    /\ artistsRaw \in SeqsUpTo(FetchedArtists, MaxFetched)
    /\ connectionsRaw = <<>> /\ graph = NoGraph
    /\ Idle

\* fetchData once the response is there (part_000 23-420): nothing is
\* rendered and no handler is registered when no node was built
ChainFetchData ==
    /\ fetchState = "pending"
    /\ fetchState' = "done"
    /\ graph' = GenreChainGraph(artistsRaw)
    /\ Show(SceneAsBuilt(graph', ChainStyle))
    /\ UNCHANGED <<artistsRaw, connectionsRaw, mounted, destroy, selRefs,
                   searchTerm, activeGenre, legendItems, softLinkOpacity,
                   simulation, tooltip, position, nodeAt, linkAt, softLinkAt,
                   hovered, tooltipOpacity, pointerVars>>

\* node.on("click", (event, d) => highlightNode(d, event)) (part_000 379)
ChainClick ==
    /\ \E i \in 1..Len(graph.nodes) :
           highlightNode(ChainStyle, graph.nodes[i].id, TRUE)
    /\ UNCHANGED <<highlightFrame, searchTerm, simulation, position, fixed>>

\* searchInput.on("input", ...) (part_000 387-402); before the handler is
\* registered the box only takes the text
ChainSearchInput ==
    /\ \E s \in HighlightSearchTerms \ {searchTerm} :
        /\ searchTerm' = s
        /\ LET value == Trim(ToLowerCase(s))
               matched == FirstMatch(graph.nodes, value)
           IN  IF graph.nodes = <<>> \/ (Truthy(value) /\ matched = 0)
               THEN UNCHANGED <<activeNode, nodeRadius, nodeOpacity, linkOpacity,
                                tooltipOpacity>>
               ELSE IF ~Truthy(value)
               THEN /\ activeNode' = NullNode
                    /\ Show(resetHighlight(graph, ChainStyle))
                    /\ tooltipOpacity' = 0
               ELSE highlightNode(ChainStyle, graph.nodes[matched].id, FALSE)
    /\ UNCHANGED <<highlightFrame, simulation, position, fixed>>

\* resetBtn.on("click", ...) (part_000 404-417)
ChainResetClick ==
    /\ graph.nodes # <<>>
    /\ activeNode' = NullNode
    /\ Show(resetHighlight(graph, ChainStyle))
    /\ tooltipOpacity' = 0
    /\ searchTerm' = <<>>
    /\ UNCHANGED <<highlightFrame, simulation, position, fixed>>

NextChainView ==
    \/ ChainFetchData
    \/ ChainClick
    \/ ChainSearchInput
    \/ ChainResetClick

SpecChainView == InitChainView /\ [][NextChainView]_vars

(***************************************************************************)
(* Connection variant with search (part_002, second component): artists    *)
(* are fetched one by one for the Bubble ids the connections name, nodes   *)
(* are deduplicated by Spotify id, and the layout is frozen at the end.    *)
(***************************************************************************)
Str_x == <<120>>  \* "x"
Str_y == <<121>>  \* "y"

\* an Artist record of the Bubble table: its Bubble id (_id) and Spotify id
BubbleArtist(bubble, spotify, name, genres) ==
    [RawArtist(Absent, name, genres) EXCEPT !.uid = bubble,
                                            !.spotify_id_text = spotify]

\* an ArtistConnection record; part_006 reads the same two references as
\* artist_11_custom_artist and artist_21_custom_artist
CustomConn(b1, b2) ==
    [ artist_1_custom_artist |-> b1, artist_2_custom_artist |-> b2,
      artist_11_custom_artist |-> b1, artist_21_custom_artist |-> b2,
      connection_strength_number |-> NoNumber ]

\* the Artist tables of the fixtures
BubbleTables ==
    { << BubbleArtist(Str_x, Str_a, Str_bob, <<Str_house>>),
         BubbleArtist(Str_y, Str_b, Str_Bob, <<Str_tech_house, Str_house>>),
         BubbleArtist(Str_z, Absent, Str_Amy, <<>>) >>,
      << BubbleArtist(Str_x, Str_a, Str_bob, <<Str_house>>),
         BubbleArtist(Str_y, Str_a, Str_bob, <<Str_house>>),
         BubbleArtist(Str_z, Str_b, Absent, <<Str_deep_house>>) >> }

CustomConns ==
    { CustomConn(p[1], p[2]) : p \in
        { <<Str_x, Str_y>>, <<Str_y, Str_z>>, <<Str_z, Str_x>>, <<Str_x, Str_x>>,
          <<Absent, Str_y>>, <<Str_y, Str_7>> } }

MaxCustomConns == 2    \* connection records of a response

CustomInputs == BubbleTables \X SeqsUpTo(CustomConns, MaxCustomConns)

\* GET obj/Artist/{bubbleId}: the position of the record, 0 when the
\* response has none
FetchArtist(table, bubbleId) ==
    IF \E k \in 1..Len(table) : table[k].uid = bubbleId
    THEN CHOOSE k \in 1..Len(table) : table[k].uid = bubbleId
    ELSE 0

\* Array.from(new Set([...artist_1, ...artist_2])).filter(Boolean)
\* (part_002 340-345)
BubbleArtistIds(conns) ==
    SelectSeq(Dedupe([i \in 1..Len(conns) |-> conns[i].artist_1_custom_artist]
                     \o [i \in 1..Len(conns) |-> conns[i].artist_2_custom_artist]),
              Truthy)

\* one iteration of `for (const bubbleId of bubbleArtistIds)` (part_002
\* 353-382); st.b2s is bubbleToSpotify, st.map is artistMapBySpotify
SpotifyStep(st, table, bubbleId) ==
    LET k == FetchArtist(table, bubbleId)
        a == table[k]
        spotifyId == Or(a.spotify_id_text, bubbleId)
        genre == IF a.genre_list_text # <<>> THEN JoinComma(a.genre_list_text)
                 ELSE Str_Unknown
    IN  IF k = 0 THEN st
        ELSE [ b2s |-> Append(st.b2s, <<bubbleId, spotifyId>>),
               map |-> IF IndexOfId(st.map, spotifyId) # 0 THEN st.map
                       ELSE Append(st.map,
                                   [ id |-> spotifyId,
                                     name |-> Or(a.name_text, Str_Unknown),
                                     image |-> a.image_url_text,
                                     genre |-> genre ]) ]

RECURSIVE SpotifyLoop(_, _)
SpotifyLoop(table, ids) ==
    IF ids = <<>> THEN [b2s |-> <<>>, map |-> <<>>]
    ELSE SpotifyStep(SpotifyLoop(table, SubSeq(ids, 1, Len(ids) - 1)), table,
                     ids[Len(ids)])

\* b && bubbleToSpotify[b] (part_002 399-400)
bubbleToSpotify(b2s, b) ==
    IF \E i \in 1..Len(b2s) : b2s[i][1] = b
    THEN (CHOOSE p \in { b2s[i] : i \in 1..Len(b2s) } : p[1] = b)[2]
    ELSE Absent

\* connections.forEach into rawLinks and the linkMap that keeps the first
\* link of every undirected pair (part_002 395-424), from record n on
RECURSIVE SpotifyLinkLoop(_, _, _, _)
SpotifyLinkLoop(conns, n, built, acc) ==
    IF n > Len(conns) THEN acc
    ELSE LET s == bubbleToSpotify(built.b2s, conns[n].artist_1_custom_artist)
             t == bubbleToSpotify(built.b2s, conns[n].artist_2_custom_artist)
             key == strongKey(s, t)
         IN  SpotifyLinkLoop(conns, n + 1, built,
                IF ~Truthy(s) \/ ~Truthy(t) \/ s = t THEN acc
                ELSE IF IndexOfId(built.map, s) = 0 \/ IndexOfId(built.map, t) = 0
                THEN acc
                ELSE IF key \in acc.keys THEN acc
                ELSE [acc EXCEPT !.keys = @ \cup {key},
                                 !.links = Append(@, MakeLink(s, t, Absent, 1))])

\* the graph the variant builds from the table and the connections
SpotifyGraph(table, conns) ==
    LET built == SpotifyLoop(table, BubbleArtistIds(conns))
    IN  [ variant |-> "spotify", nodes |-> ObjectValues(built.map),
          links |-> SpotifyLinkLoop(conns, 1, built, NoLinks).links,
          softLinks |-> <<>> ]

InitSpotifyView ==
    /\ \E in \in CustomInputs : artistsRaw = in[1] /\ connectionsRaw = in[2]
    /\ graph = NoGraph
    /\ Idle

\* a freeze that leaves the nodes unpinned
freezeLayoutUnpinned(pos) == [i \in 1..Len(pos) |-> <<>>]

\* nodes.forEach((n) => { n.fx = n.x; n.fy = n.y; }) (part_002 573-579,
\* part_000 687-693, part_005 216-222)
freezeLayout(pos) == [i \in 1..Len(pos) |-> pos[i]]

\* where a tick leaves node i: a pinned node is put at fx, fy
TickPosition(i, d) == IF fixed[i] # <<>> THEN fixed[i] ELSE Moved(i, d)

\* alpha += (alphaTarget - alpha) * alphaDecay, in the model's scale
AlphaStep(alpha, target) ==
    IF alpha >= target THEN target + (alpha - target) \div AlphaDecayDivisor
    ELSE target - (target - alpha) \div AlphaDecayDivisor

\* fetchData once the responses are there (part_002 326-760): nothing is
\* rendered and no simulation is created when no node was built
SpotifyFetchData ==
    /\ fetchState = "pending"
    /\ fetchState' = "done"
    /\ graph' = SpotifyGraph(artistsRaw, connectionsRaw)
    /\ Show(SceneAsBuilt(graph', SpotifyStyle))
    /\ position' = [i \in 1..Len(graph'.nodes) |-> InitialPosition(i)]
    /\ fixed' = [i \in 1..Len(graph'.nodes) |-> <<>>]
    /\ nodeAt' = [i \in 1..Len(graph'.nodes) |-> <<0, 0>>]
    /\ linkAt' = [k \in 1..Len(graph'.links) |-> <<0, 0, 0, 0>>]
    /\ simulation' = IF graph'.nodes = <<>> THEN NoSimulation
                     ELSE [state |-> "running", ticks |-> 0, alpha |-> AlphaStart]
    /\ UNCHANGED <<artistsRaw, connectionsRaw, mounted, destroy, selRefs,
                   searchTerm, activeGenre, legendItems, softLinkOpacity, tooltip,
                   softLinkAt, hovered, tooltipOpacity, activeNode, alphaTarget,
                   gestures>>

\* one step of the simulation's timer with .on("tick", ticked) and
\* .on("end", freezeLayout) (part_002 529-579): the step that brings alpha
\* below alphaMin stops the timer and dispatches "end"
SpotifyTick ==
    /\ simulation.state = "running"
    /\ \E d \in Drifts :
        LET pos == [i \in 1..Len(position) |-> TickPosition(i, d)]
            alpha == AlphaStep(simulation.alpha, alphaTarget)
        IN  /\ position' = pos
            /\ nodeAt' = pos
            /\ linkAt' = TickLines(graph.links, TRUE, graph.nodes, pos, Len(linkAt))
            /\ simulation' = [state |-> IF alpha < AlphaMin THEN "converged"
                                        ELSE "running",
                              ticks |-> simulation.ticks + 1,
                              alpha |-> alpha]
            /\ fixed' = IF alpha < AlphaMin THEN freezeLayout(pos) ELSE fixed
    /\ UNCHANGED <<artistsRaw, connectionsRaw, graph, fetchState, mounted, destroy,
                   selRefs, searchTerm, activeGenre, legendItems, nodeOpacity,
                   linkOpacity, softLinkOpacity, tooltip, softLinkAt, hovered,
                   nodeRadius, tooltipOpacity, activeNode, alphaTarget, gestures>>

\* node.on("click", (event, d) => highlightNode(d, event)) (part_002 678)
SpotifyClick ==
    /\ \E i \in 1..Len(graph.nodes) :
           highlightNode(SpotifyStyle, graph.nodes[i].id, TRUE)
    /\ UNCHANGED <<highlightFrame, searchTerm, simulation, position, fixed>>

\* searchInput.on("input", ...) (part_002 681-696)
SpotifySearchInput ==
    /\ \E s \in HighlightSearchTerms \ {searchTerm} :
        /\ searchTerm' = s
        /\ LET value == Trim(ToLowerCase(s))
               matched == FirstMatch(graph.nodes, value)
           IN  IF graph.nodes = <<>> \/ (Truthy(value) /\ matched = 0)
               THEN UNCHANGED <<activeNode, nodeRadius, nodeOpacity, linkOpacity,
                                tooltipOpacity>>
               ELSE IF ~Truthy(value)
               THEN /\ Show(resetHighlight(graph, SpotifyStyle))
                    /\ tooltipOpacity' = 0
                    /\ UNCHANGED activeNode
               ELSE highlightNode(SpotifyStyle, graph.nodes[matched].id, FALSE)
    /\ UNCHANGED <<highlightFrame, simulation, position, fixed>>

\* d3.select("#resetBtn").on("click", ...) (part_002 699-710)
SpotifyResetClick ==
    /\ graph.nodes # <<>>
    /\ activeNode' = NullNode
    /\ Show(resetHighlight(graph, SpotifyStyle))
    /\ tooltipOpacity' = 0
    /\ UNCHANGED <<highlightFrame, searchTerm, simulation, position, fixed>>

NextSpotifyView ==
    \/ SpotifyFetchData
    \/ SpotifyTick
    \/ SpotifyClick
    \/ SpotifySearchInput
    \/ SpotifyResetClick

SpecSpotifyView == InitSpotifyView /\ [][NextSpotifyView]_vars

(***************************************************************************)
(* Drag variant (part_006; part_003's first component has the same drag    *)
(* handlers): nodes keyed by Bubble id, one link per connection record,    *)
(* and d3.drag on the circles.  d3.drag runs one gesture per pointer       *)
(* (the mouse or a touch); event.active is the number of gestures active   *)
(* besides the one that starts or ends.                                    *)
(***************************************************************************)
Str_Unknown_Artist ==
    <<85, 110, 107, 110, 111, 119, 110, 32, 65, 114, 116, 105, 115, 116>>  \* "Unknown Artist"
Str_Unknown_Genre ==
    <<85, 110, 107, 110, 111, 119, 110, 32, 71, 101, 110, 114, 101>>  \* "Unknown Genre"

MaxPointers == 2    \* pointers that may drag at the same time

\* where a pointer may be during a drag
PointerPlaces == { <<3, 3>> }

\* alphaTarget(0.3): above alphaMin, so that the timer does not stop
AlphaTargetDrag == AlphaMin

\* artistMap after `for (const artistId of uniqueArtistIds)` (part_006
\* 41-73): an id whose fetch yields no record throws inside the try and
\* gets no node
DragNodes(table, conns) ==
    LET ids == BubbleArtistIds(conns)
        got == SelectSeq(ids, LAMBDA id : FetchArtist(table, id) # 0)
    IN  [i \in 1..Len(got) |->
            LET a == table[FetchArtist(table, got[i])]
            IN  [ id |-> got[i],
                  name |-> Or(a.name_text, Str_Unknown_Artist),
                  image |-> a.image_url_text,
                  genre |-> IF a.genre_list_text # <<>>
                            THEN JoinComma(a.genre_list_text)
                            ELSE Str_Unknown_Genre ]]

\* connections.map(...).filter(both ends in artistMap) (part_006 78-87)
DragLinks(nodes, conns) ==
    LET kept == SelectSeq(conns, LAMBDA c :
                    /\ IndexOfId(nodes, c.artist_11_custom_artist) # 0
                    /\ IndexOfId(nodes, c.artist_21_custom_artist) # 0)
    IN  [k \in 1..Len(kept) |->
            MakeLink(kept[k].artist_11_custom_artist,
                     kept[k].artist_21_custom_artist, Absent, 1)]

\* the graph the drag variant builds (part_006 76-87)
DragGraph(table, conns) ==
    LET nodes == ObjectValues(DragNodes(table, conns))
    IN  [ variant |-> "drag", nodes |-> nodes, links |-> DragLinks(nodes, conns),
          softLinks |-> <<>> ]

InitDragView ==
    /\ \E in \in CustomInputs : artistsRaw = in[1] /\ connectionsRaw = in[2]
    /\ graph = NoGraph
    /\ Idle

\* the gestures that are active
ActiveGestures == { p \in 1..Len(gestures) : gestures[p] # 0 }

\* fetchData once the responses are there (part_006 27-259): the body
\* returns before the scene when there is no node or no link
DragFetchData ==
    /\ fetchState = "pending"
    /\ fetchState' = "done"
    /\ graph' = DragGraph(artistsRaw, connectionsRaw)
    /\ IF graph'.nodes = <<>> \/ graph'.links = <<>>
       THEN UNCHANGED <<position, fixed, nodeAt, linkAt, simulation, gestures>>
       ELSE /\ position' = [i \in 1..Len(graph'.nodes) |-> InitialPosition(i)]
            /\ fixed' = [i \in 1..Len(graph'.nodes) |-> <<>>]
            /\ nodeAt' = [i \in 1..Len(graph'.nodes) |-> <<0, 0>>]
            /\ linkAt' = [k \in 1..Len(graph'.links) |-> <<0, 0, 0, 0>>]
            /\ simulation' = [state |-> "running", ticks |-> 0, alpha |-> AlphaStart]
            /\ gestures' = [p \in 1..MaxPointers |-> 0]
    /\ UNCHANGED <<artistsRaw, connectionsRaw, mounted, destroy, selRefs,
                   searchTerm, activeGenre, legendItems, nodeOpacity, linkOpacity,
                   softLinkOpacity, tooltip, softLinkAt, hovered, nodeRadius,
                   tooltipOpacity, activeNode, alphaTarget>>

\* what the drag handlers and the timer leave alone
dragFrame == <<artistsRaw, connectionsRaw, graph, fetchState, mounted, destroy,
               selRefs, searchTerm, activeGenre, legendItems, nodeOpacity,
               linkOpacity, softLinkOpacity, tooltip, softLinkAt, hovered,
               nodeRadius, tooltipOpacity, activeNode>>

\* one step of the simulation's timer with .on("tick", ticked) (part_006
\* 212-239); the count of ticks stays at MaxTicks once it is there
DragTick ==
    /\ simulation.state = "running"
    /\ \E d \in Drifts :
        LET pos == [i \in 1..Len(position) |-> TickPosition(i, d)]
            alpha == AlphaStep(simulation.alpha, alphaTarget)
        IN  /\ position' = pos
            /\ nodeAt' = pos
            /\ linkAt' = TickLines(graph.links, TRUE, graph.nodes, pos, Len(linkAt))
            /\ simulation' = [state |-> IF alpha < AlphaMin THEN "converged"
                                        ELSE "running",
                              ticks |-> IF simulation.ticks < MaxTicks
                                        THEN simulation.ticks + 1 ELSE MaxTicks,
                              alpha |-> alpha]
    /\ UNCHANGED <<dragFrame, fixed, alphaTarget, gestures>>

\* dragstarted(event, d) for a pointer that goes down on circle i
\* (part_006 241-245)
dragstarted ==
    /\ \E p \in (1..Len(gestures)) \ ActiveGestures, i \in 1..Len(graph.nodes) :
        /\ IF ActiveGestures = {}
           THEN /\ alphaTarget' = AlphaTargetDrag
                /\ simulation' = [simulation EXCEPT !.state = "running"]
           ELSE UNCHANGED <<alphaTarget, simulation>>
        /\ fixed' = [fixed EXCEPT ![i] = position[i]]
        /\ gestures' = [gestures EXCEPT ![p] = i]
    /\ UNCHANGED <<dragFrame, position, nodeAt, linkAt>>

\* dragged(event, d) for a pointer that moves (part_006 247-250)
dragged ==
    /\ \E p \in ActiveGestures, at \in PointerPlaces :
           fixed' = [fixed EXCEPT ![gestures[p]] = at]
    /\ UNCHANGED <<dragFrame, position, nodeAt, linkAt, simulation, alphaTarget,
                   gestures>>

\* dragended(event, d) for a pointer that goes up (part_006 252-256)
dragended ==
    /\ \E p \in ActiveGestures :
        /\ alphaTarget' = IF ActiveGestures \ {p} = {} THEN 0 ELSE alphaTarget
        /\ fixed' = [fixed EXCEPT ![gestures[p]] = <<>>]
        /\ gestures' = [gestures EXCEPT ![p] = 0]
    /\ UNCHANGED <<dragFrame, position, nodeAt, linkAt, simulation>>

NextDragView ==
    \/ DragFetchData
    \/ DragTick
    \/ dragstarted
    \/ dragged
    \/ dragended

SpecDragView == InitDragView /\ [][NextDragView]_vars

\* the simulation's timer keeps firing while the simulation runs
SpecDragLive == SpecDragView /\ WF_vars(DragTick)

(***************************************************************************)
(* Properties of the builders (SpecBuild).                                 *)
(***************************************************************************)
PairOf(l) == {l.sourceId, l.targetId}

AllEdges(g) == g.links \o g.softLinks

ResolvedIds(raw) == { ResolveId(raw[i]) : i \in 1..Len(raw) } \ {Absent}

\* C1: after the genre-overlap build no two nodes share an id, and the ids of
\* the nodes are exactly the ids the raw records resolve to.
C1_UniqueIds ==
    graph.variant = "genreOverlap" =>
        /\ \A i, j \in 1..Len(graph.nodes) :
              graph.nodes[i].id = graph.nodes[j].id => i = j
        /\ { graph.nodes[i].id : i \in 1..Len(graph.nodes) } = ResolvedIds(artistsRaw)

\* C1 witness: a build from a response in which two records resolve to the
\* same id and another record to a different one.
C1_Witness ==
    /\ graph.variant = "genreOverlap"
    /\ Len(graph.nodes) = 2
    /\ \E i, j \in 1..Len(artistsRaw) :
          i < j /\ Truthy(ResolveId(artistsRaw[i]))
                /\ ResolveId(artistsRaw[i]) = ResolveId(artistsRaw[j])

\* C2: in the genre-overlap build, two artists whose lowercased primary
\* genres differ have a soft edge exactly when the whitespace-delimited words
\* of their primary genres intersect.
C2_SoftIffSharedWord ==
    graph.variant = "genreOverlap" =>
        \A i, j \in 1..Len(graph.nodes) :
            (i < j /\ PrimaryGenre(graph.nodes[i]) # PrimaryGenre(graph.nodes[j])) =>
                ((\E k \in 1..Len(graph.softLinks) :
                      PairOf(graph.softLinks[k]) = {graph.nodes[i].id, graph.nodes[j].id})
                 <=> Words(PrimaryGenre(graph.nodes[i]))
                        \cap Words(PrimaryGenre(graph.nodes[j])) # {})

\* the lowercased primary genre of a node of either genre variant
C3_Primary(n) ==
    IF graph.variant = "genreChain" THEN ToLowerCase(ChainPrimary(n)) ELSE PrimaryGenre(n)

\* a name precedes another one without regard to case
C3_NameLess(a, b) == StrLess(ToLowerCase(a), ToLowerCase(b))

\* stable insertion by case-insensitive name
RECURSIVE C3_Insert(_, _)
C3_Insert(s, n) ==
    IF s = <<>> THEN <<n>>
    ELSE IF ~C3_NameLess(n.name, s[Len(s)].name) THEN Append(s, n)
    ELSE Append(C3_Insert(SubSeq(s, 1, Len(s) - 1), n), s[Len(s)])

RECURSIVE C3_Sort(_)
C3_Sort(s) ==
    IF s = <<>> THEN <<>>
    ELSE C3_Insert(C3_Sort(SubSeq(s, 1, Len(s) - 1)), s[Len(s)])

\* the pairs of consecutive members of every primary-genre group
C3_ChainPairs(nodes) ==
    UNION { LET grp == C3_Sort(SelectSeq(nodes, LAMBDA n : C3_Primary(n) = p))
            IN  { {grp[i].id, grp[i + 1].id} : i \in 1..(Len(grp) - 1) }
            : p \in { C3_Primary(nodes[i]) : i \in 1..Len(nodes) } }

\* C3: the strong edges are exactly the edges joining consecutive members, in
\* case-insensitive name order, of each group of artists with the same
\* lowercased primary genre: k - 1 edges for k members, a path and no clique.
\* Stated for the genre-overlap build of artists that all have a genre.
C3_StrongEdgesAreChains ==
    (/\ graph.variant = "genreOverlap"
     /\ \A i \in 1..Len(graph.nodes) : graph.nodes[i].genre # <<>>) =>
        /\ { PairOf(graph.links[k]) : k \in 1..Len(graph.links) }
              = C3_ChainPairs(graph.nodes)
        /\ Len(graph.links) = Cardinality(C3_ChainPairs(graph.nodes))

\* C4: no unordered pair of artists has both a strong and a soft edge.
C4_StrongSoftDisjoint ==
    graph.variant \in {"genreOverlap", "connection"} =>
        \A i \in 1..Len(graph.links) : \A k \in 1..Len(graph.softLinks) :
            PairOf(graph.links[i]) # PairOf(graph.softLinks[k])

\* C4 witness: the connection build kept a strong edge between two artists
\* whose primary genres differ and share a word.
C4_Witness ==
    /\ graph.variant = "connection"
    /\ \E k \in 1..Len(graph.links) : \E i, j \in 1..Len(graph.nodes) :
          /\ i < j
          /\ PairOf(graph.links[k]) = {graph.nodes[i].id, graph.nodes[j].id}
          /\ graph.nodes[i].genre # <<>> /\ graph.nodes[j].genre # <<>>
          /\ PrimaryGenre(graph.nodes[i]) # PrimaryGenre(graph.nodes[j])
          /\ Words(PrimaryGenre(graph.nodes[i]))
                \cap Words(PrimaryGenre(graph.nodes[j])) # {}

\* C5: neither edge set holds two edges with the same unordered pair.
C5_NoDuplicateEdges ==
    graph.variant \in {"genreOverlap", "connection"} =>
        /\ \A i, j \in 1..Len(graph.links) :
              PairOf(graph.links[i]) = PairOf(graph.links[j]) => i = j
        /\ \A i, j \in 1..Len(graph.softLinks) :
              PairOf(graph.softLinks[i]) = PairOf(graph.softLinks[j]) => i = j

\* C6: in the connection variants every edge joins two ids of the node set.
C6_EdgesJoinNodes ==
    graph.variant \in {"connection", "loadData"} =>
        \A k \in 1..Len(AllEdges(graph)) :
            /\ HasNode(graph.nodes, AllEdges(graph)[k].sourceId)
            /\ HasNode(graph.nodes, AllEdges(graph)[k].targetId)

(***************************************************************************)
(* Properties of the page (Spec).                                          *)
(***************************************************************************)
\* a step in which Effect 2 ran past its guard: the FilterState changed
\* while the selection refs were set
FilterRan ==
    /\ selRefs /\ selRefs'
    /\ <<searchTerm, activeGenre>>' # <<searchTerm, activeGenre>>

C7_Primary(d) == IF d.genre = <<>> THEN Str_unknown ELSE ToLowerCase(d.genre[1])

C7_Contains(d, t) ==
    \/ Includes(ToLowerCase(d.name), ToLowerCase(t))
    \/ \E i \in 1..Len(d.genre) : Includes(ToLowerCase(d.genre[i]), ToLowerCase(t))

\* the visibility rule with the search term as typed
C7_VisibleAsTyped(d, search, active) ==
    /\ search = <<>> \/ C7_Contains(d, search)
    /\ ~active.set \/ C7_Primary(d) = active.genre

\* the visibility rule with the search term trimmed, and an empty active
\* genre filtering nothing
C7_VisibleTrimmed(d, search, active) ==
    /\ Trim(search) = <<>> \/ C7_Contains(d, Trim(search))
    /\ ~active.set \/ active.genre = <<>> \/ C7_Primary(d) = active.genre

\* C7 as claimed: after the filter effect a node has opacity 1 exactly when
\* searchTerm is empty or contained in its name or a genre, and activeGenre is
\* null or its primary genre; every other node has opacity 0.15.
C7_OpacityByTypedTerm ==
    [][FilterRan =>
        /\ Len(nodeOpacity') = Len(graph'.nodes)
        /\ \A i \in 1..Len(graph'.nodes) :
              nodeOpacity'[i] =
                  IF C7_VisibleAsTyped(graph'.nodes[i], searchTerm', activeGenre')
                  THEN 100 ELSE 15]_vars

\* C7 amended: the same with searchTerm trimmed of surrounding whitespace and
\* with an empty activeGenre treated like null.
C7_OpacityByTrimmedTerm ==
    [][FilterRan =>
        /\ Len(nodeOpacity') = Len(graph'.nodes)
        /\ \A i \in 1..Len(graph'.nodes) :
              nodeOpacity'[i] =
                  IF C7_VisibleTrimmed(graph'.nodes[i], searchTerm', activeGenre')
                  THEN 100 ELSE 15]_vars

\* C7 witness: a search term with surrounding whitespace is in effect, one
\* node is at full opacity and another is dimmed.
C7_Witness ==
    /\ selRefs /\ Trim(searchTerm) # searchTerm /\ Trim(searchTerm) # <<>>
    /\ \E i, j \in 1..Len(nodeOpacity) : nodeOpacity[i] = 100 /\ nodeOpacity[j] = 15

\* the node rule says the artist with this id is visible
C8_VisibleId(nodes, id, search, active) ==
    \E i \in 1..Len(nodes) :
        nodes[i].id = id /\ NodeVisible(nodes[i], FilterTerm(search), GenreFilter(active))

\* C8: after the filter effect an edge has its full opacity (0.9 strong, 0.5
\* soft) exactly when both endpoints are visible under the node rule for the
\* same FilterState, and 0.05 otherwise.
C8_EdgeOpacityByEndpoints ==
    [][FilterRan =>
        /\ Len(linkOpacity') = Len(graph'.links)
        /\ Len(softLinkOpacity') = Len(graph'.softLinks)
        /\ \A i \in 1..Len(graph'.links) :
              linkOpacity'[i] =
                  IF /\ C8_VisibleId(graph'.nodes, graph'.links[i].sourceId,
                                     searchTerm', activeGenre')
                     /\ C8_VisibleId(graph'.nodes, graph'.links[i].targetId,
                                     searchTerm', activeGenre')
                  THEN 90 ELSE 5
        /\ \A i \in 1..Len(graph'.softLinks) :
              softLinkOpacity'[i] =
                  IF /\ C8_VisibleId(graph'.nodes, graph'.softLinks[i].sourceId,
                                     searchTerm', activeGenre')
                     /\ C8_VisibleId(graph'.nodes, graph'.softLinks[i].targetId,
                                     searchTerm', activeGenre')
                  THEN 50 ELSE 5]_vars

\* C8 witness: the filter effect left a strong edge at full opacity between
\* two visible nodes while a genre filter is active.
C8_Witness ==
    /\ selRefs /\ activeGenre.set
    /\ \E i \in 1..Len(linkOpacity) : linkOpacity[i] = 90

\* C9: once the cleanup of the view has run, no simulation of the view runs.
C9_NoSimulationAfterCleanup ==
    ~mounted => simulation.state # "running"

\* C10: once the build is complete, every node's opacity is what the
\* visibility rule yields for the current FilterState, and every edge is
\* at a full opacity exactly when both its endpoints are visible.
C10_OpacityFollowsFilterState ==
    (mounted /\ selRefs) =>
        /\ \A i \in 1..Len(graph.nodes) :
              nodeOpacity[i] =
                  IF NodeVisible(graph.nodes[i], FilterTerm(searchTerm),
                                 GenreFilter(activeGenre))
                  THEN 100 ELSE 15
        /\ \A i \in 1..Len(graph.links) :
              (linkOpacity[i] \in {80, 90})
                  <=> /\ C8_VisibleId(graph.nodes, graph.links[i].sourceId,
                                      searchTerm, activeGenre)
                      /\ C8_VisibleId(graph.nodes, graph.links[i].targetId,
                                      searchTerm, activeGenre)
        /\ \A i \in 1..Len(graph.softLinks) :
              (softLinkOpacity[i] = 50)
                  <=> /\ C8_VisibleId(graph.nodes, graph.softLinks[i].sourceId,
                                      searchTerm, activeGenre)
                      /\ C8_VisibleId(graph.nodes, graph.softLinks[i].targetId,
                                      searchTerm, activeGenre)

\* a step in which the tick handler ran
TickRan == simulation'.ticks = simulation.ticks + 1

\* the position the simulation holds for the node with this id
C11_PositionOf(nodes, pos, id) ==
    pos[CHOOSE i \in 1..Len(nodes) : nodes[i].id = id]

\* the line of an edge joins the positions of its two nodes
C11_LineJoins(line, edge, nodes, pos) ==
    /\ <<line[1], line[2]>> = C11_PositionOf(nodes, pos, edge.sourceId)
    /\ <<line[3], line[4]>> = C11_PositionOf(nodes, pos, edge.targetId)

\* C11: after every tick each circle is at the position of its node and each
\* line, strong or soft, joins the positions of its source and target nodes.
C11_RenderedFollowsPositions ==
    [][TickRan =>
        /\ \A i \in 1..Len(nodeAt') : nodeAt'[i] = position'[i]
        /\ \A k \in 1..Len(linkAt') :
              C11_LineJoins(linkAt'[k], graph'.links[k], graph'.nodes, position')
        /\ \A k \in 1..Len(softLinkAt') :
              C11_LineJoins(softLinkAt'[k], graph'.softLinks[k], graph'.nodes,
                            position')]_vars

\* C12: the cooling parameter decreases at every tick, no simulation ticks
\* more than MaxTicks times, and a running simulation eventually is not
\* running any more (it has converged or was stopped).
C12_SimulationConverges ==
    /\ [][TickRan => simulation'.alpha < simulation.alpha]_vars
    /\ [](simulation.ticks <= MaxTicks)
    /\ (simulation.state = "running")
          ~> (simulation.state \in {"converged", "stopped"})

\* C12 witness: a simulation has converged by itself, its alpha below alphaMin.
C12_Witness ==
    /\ simulation.state = "converged"
    /\ simulation.ticks = MaxTicks
    /\ simulation.alpha < AlphaMin
    /\ graph.nodes # <<>>

\* C13: a failed fetch changes nothing but the state of the fetch, and after
\* it there is no node, edge, legend entry, scene element, tooltip or
\* simulation, and the selection refs are null.
C13_FetchFailureBuildsNothing ==
    /\ [][(fetchState = "pending" /\ fetchState' = "failed") =>
            UNCHANGED <<artistsRaw, connectionsRaw, graph, mounted, destroy, selRefs,
                        searchTerm, activeGenre, legendItems, nodeOpacity,
                        linkOpacity, softLinkOpacity, simulation, tooltip,
                        sceneVars>>]_vars
    /\ [](fetchState = "failed" =>
            /\ graph = NoGraph /\ legendItems = <<>> /\ ~selRefs /\ ~tooltip
            /\ simulation.state = "none"
            /\ nodeOpacity = <<>> /\ linkOpacity = <<>> /\ softLinkOpacity = <<>>
            /\ nodeAt = <<>> /\ linkAt = <<>> /\ softLinkAt = <<>>
            /\ nodeRadius = <<>> /\ position = <<>>)

\* C13 witness: the fetch failed after the user had typed a search term.
C13_Witness == fetchState = "failed" /\ searchTerm # <<>>

\* the nodes joined to node i by a strong or a soft edge
C20_Neighbours(g, i) ==
    { j \in 1..Len(g.nodes) :
        /\ j # i
        /\ \E k \in 1..Len(AllEdges(g)) :
              PairOf(AllEdges(g)[k]) = {g.nodes[i].id, g.nodes[j].id} }

\* the edge touches node i
C20_Incident(g, l, i) == g.nodes[i].id \in PairOf(l)

\* C20: while a node is hovered, it and its neighbours by either edge set have
\* the enlarged radius and full opacity, every other node is dimmed and the
\* edges not touching the hovered node are dimmed; with no node hovered every
\* node has its plain radius.
C20_HoverEmphasis ==
    (mounted /\ selRefs) =>
        IF hovered = 0
        THEN \A i \in 1..Len(nodeRadius) : nodeRadius[i] = 20
        ELSE /\ \A i \in 1..Len(nodeRadius) :
                  IF i = hovered \/ i \in C20_Neighbours(graph, hovered)
                  THEN nodeRadius[i] = 26 /\ nodeOpacity[i] = 100
                  ELSE nodeRadius[i] = 20 /\ nodeOpacity[i] < 100
             /\ \A k \in 1..Len(linkOpacity) :
                  ~C20_Incident(graph, graph.links[k], hovered) => linkOpacity[k] <= 5
             /\ \A k \in 1..Len(softLinkOpacity) :
                  ~C20_Incident(graph, graph.softLinks[k], hovered)
                      => softLinkOpacity[k] <= 5

(***************************************************************************)
(* Properties of the layout and of the normaliser (SpecBuild).             *)
(***************************************************************************)
\* the first node whose lowercased primary genre is g
C14_FirstNodeWith(nodes, g) ==
    CHOOSE i \in 1..Len(nodes) :
        /\ C7_Primary(nodes[i]) = g
        /\ \A j \in 1..(i - 1) : C7_Primary(nodes[j]) # g

\* C14: the k distinct lowercased primary genres, in the order in which the
\* nodes first show them, get the targets W/(k+1) * (i+1) for i = 0..k-1.
C14_BandCenters ==
    graph.variant = "genreOverlap" =>
        \A W \in Widths :
            LET c == genreCenterX(graph.nodes, W)
                k == Len(c)
            IN  /\ { c[i].genre : i \in 1..k }
                      = { C7_Primary(graph.nodes[n]) : n \in 1..Len(graph.nodes) }
                /\ \A i, j \in 1..k :
                      i < j => C14_FirstNodeWith(graph.nodes, c[i].genre)
                                  < C14_FirstNodeWith(graph.nodes, c[j].genre)
                /\ \A i \in 0..(k - 1) : c[i + 1].x * (k + 1) = W * (i + 1)

\* C14 witness: three distinct primary genres at width 1200 get 300, 600, 900.
C14_Witness ==
    /\ graph.variant = "genreOverlap"
    /\ Len(genreCenterX(graph.nodes, 1200)) = 3
    /\ [i \in 1..3 |-> genreCenterX(graph.nodes, 1200)[i].x] = <<300, 600, 900>>

\* the reorderings of a record sequence
C15_Permutations(raw) ==
    { [i \in 1..Len(raw) |-> raw[f[i]]] :
        f \in { h \in [1..Len(raw) -> 1..Len(raw)] :
                  \A i, j \in 1..Len(raw) : h[i] = h[j] => i = j } }

\* the artists of a graph: id and merged genres, the genres without their order
C15_Artists(g) ==
    { <<g.nodes[i].id, { g.nodes[i].genre[k] : k \in 1..Len(g.nodes[i].genre) }>> :
        i \in 1..Len(g.nodes) }

C15_Pairs(links) == { PairOf(links[k]) : k \in 1..Len(links) }

\* C15: building from any reordering of the fetched records gives the same
\* artists (ids and merged genres) and the same strong and soft edge sets,
\* the edges compared as unordered pairs.
C15_OrderIndependent ==
    graph.variant = "genreOverlap" =>
        \A perm \in C15_Permutations(artistsRaw) :
            LET g == GenreOverlapGraph(perm)
            IN  /\ C15_Artists(g) = C15_Artists(graph)
                /\ C15_Pairs(g.links) = C15_Pairs(graph.links)
                /\ C15_Pairs(g.softLinks) = C15_Pairs(graph.softLinks)

\* the genres of the records that resolve to this id, one list after another
RECURSIVE C16_GenresOf(_, _)
C16_GenresOf(raw, id) ==
    IF raw = <<>> THEN <<>>
    ELSE IF ResolveId(Head(raw)) = id
    THEN ResolveGenreList(Head(raw)) \o C16_GenresOf(Tail(raw), id)
    ELSE C16_GenresOf(Tail(raw), id)

\* how many records resolve to this id
C16_Count(raw, id) == Cardinality({ i \in 1..Len(raw) : ResolveId(raw[i]) = id })

\* where x first occurs in s
C16_First(s, x) == CHOOSE i \in 1..Len(s) : s[i] = x /\ \A j \in 1..(i - 1) : s[j] # x

\* C16: the genres of an artist merged from several records are the genres of
\* all these records, each once, compared case-sensitively, in the order in
\* which they first occur.
C16_MergedGenresAreUnion ==
    graph.variant = "genreOverlap" =>
        \A n \in 1..Len(graph.nodes) :
            LET node == graph.nodes[n]
                all == C16_GenresOf(artistsRaw, node.id)
            IN  C16_Count(artistsRaw, node.id) >= 2 =>
                    /\ { node.genre[i] : i \in 1..Len(node.genre) }
                          = { all[i] : i \in 1..Len(all) }
                    /\ \A i, j \in 1..Len(node.genre) :
                          i < j => /\ node.genre[i] # node.genre[j]
                                   /\ C16_First(all, node.genre[i])
                                         < C16_First(all, node.genre[j])

\* C16 witness: an artist merged from records that repeat one genre exactly
\* and differ in another only by case.
C16_Witness ==
    /\ graph.variant = "genreOverlap"
    /\ \E n \in 1..Len(graph.nodes) :
          LET all == C16_GenresOf(artistsRaw, graph.nodes[n].id)
          IN  /\ C16_Count(artistsRaw, graph.nodes[n].id) >= 2
              /\ Len(all) > Len(graph.nodes[n].genre)
              /\ \E i, j \in 1..Len(graph.nodes[n].genre) :
                    /\ graph.nodes[n].genre[i] # graph.nodes[n].genre[j]
                    /\ ToLowerCase(graph.nodes[n].genre[i])
                          = ToLowerCase(graph.nodes[n].genre[j])

(***************************************************************************)
(* Properties of the builders on records of any shape (SpecRecord).        *)
(***************************************************************************)
\* the first non-empty value among the candidate id fields, in their order
C17_FirstPresent(a) ==
    LET c == <<a.artist_id_text, a.artist_id, a.spotify_id_text, a.spotify_id, a.uid>>
        present == { i \in 1..5 : c[i] # <<>> }
    IN  IF present = {} THEN <<>>
        ELSE c[CHOOSE i \in present : \A j \in present : i <= j]

\* C17: the artists are exactly the records that have a candidate id field,
\* each under the first non-empty one of artist_id_text, artist_id,
\* spotify_id_text, spotify_id, _id; a record without any yields no artist.
C17_IdByPriority ==
    graph.variant \in {"genreOverlap", "connection"} =>
        { graph.nodes[n].id : n \in 1..Len(graph.nodes) }
            = { C17_FirstPresent(artistsRaw[i]) : i \in 1..Len(artistsRaw) } \ {<<>>}

\* s.split(",")
RECURSIVE C18_SplitComma(_)
C18_SplitComma(s) ==
    IF \E i \in 1..Len(s) : s[i] = 44
    THEN LET c == CHOOSE i \in 1..Len(s) : s[i] = 44 /\ \A j \in 1..(i - 1) : s[j] # 44
         IN  <<SubSeq(s, 1, c - 1)>> \o C18_SplitComma(SubSeq(s, c + 1, Len(s)))
    ELSE <<s>>

\* C18: an artist made from one record whose genre is a single string has the
\* comma-separated parts of that string as its genres.
C18_StringGenreIsSplit ==
    graph.variant = "genreOverlap" =>
        \A i \in 1..Len(artistsRaw) :
            LET a == artistsRaw[i]
            IN  (/\ a.genre_list_text = <<>> /\ a.genre.t = "string"
                 /\ Truthy(ResolveId(a))
                 /\ \A j \in 1..Len(artistsRaw) :
                       ResolveId(artistsRaw[j]) = ResolveId(a) => j = i)
                => \E n \in 1..Len(graph.nodes) :
                      /\ graph.nodes[n].id = ResolveId(a)
                      /\ graph.nodes[n].genre = C18_SplitComma(a.genre.v)

\* a record with strings where strings are expected
C19_WellFormed(a) ==
    /\ ~IsNull(a)
    /\ IsString(a.name_text) /\ IsString(a.name)
    /\ \A k \in 1..Len(a.genre_list_text) : IsString(a.genre_list_text[k])

\* C19: whatever else the response holds, every well-formed record that has
\* an id yields its node.
C19_MalformedAbsorbed ==
    graph.variant \in {"genreOverlap", "genreOverlapThrew"} =>
        \A i \in 1..Len(artistsRaw) :
            (C19_WellFormed(artistsRaw[i]) /\ Truthy(ResolveId(artistsRaw[i])))
                => \E n \in 1..Len(graph.nodes) :
                      graph.nodes[n].id = ResolveId(artistsRaw[i])

(***************************************************************************)
(* C21 - C30.                                                              *)
(***************************************************************************)
\* C21: the visual state is a function of the FilterState and the hovered
\* node only: whenever the scene is up, every node's opacity and every
\* edge's opacity are what applying the FilterState yields, and every
\* node's radius is the hover radius for the hovered node and the base
\* radius otherwise, by whatever sequence of events the state was reached.
C21_VisualStateByFilterAndHover ==
    (mounted /\ selRefs) =>
        LET fe == FilterEffect(graph, searchTerm, activeGenre)
        IN  /\ \A i \in 1..Len(graph.nodes) :
                  /\ nodeOpacity[i] = fe.node[i]
                  /\ nodeRadius[i] = IF i = hovered THEN NodeRadiusHover ELSE NodeRadius
            /\ \A i \in 1..Len(graph.links) : linkOpacity[i] = fe.link[i]
            /\ \A i \in 1..Len(graph.softLinks) : softLinkOpacity[i] = fe.soft[i]

\* C22: when the node set or the edge set handed to the simulation is
\* empty, the simulation performs no tick and is not running: it is at
\* rest from the moment the build has created it.
C22_EmptyGraphNoTicks ==
    (graph.variant # "none" /\ (graph.nodes = <<>> \/ graph.links = <<>>)) =>
        /\ simulation.ticks = 0
        /\ simulation.state # "running"

\* C23: every edge, strong or soft, of the genre-overlap and connection
\* builds joins two distinct artist ids: no edge has sourceId = targetId.
C23_NoSelfEdges ==
    graph.variant \in {"genreOverlap", "connection"} =>
        \A i \in 1..Len(AllEdges(graph)) :
            AllEdges(graph)[i].sourceId # AllEdges(graph)[i].targetId

\* the nodes one strong edge away from a node of S, with S
C24_Grow(g, S) ==
    S \cup { j \in 1..Len(g.nodes) :
               \E i \in S, k \in 1..Len(g.links) :
                   {g.links[k].sourceId, g.links[k].targetId}
                       = {g.nodes[i].id, g.nodes[j].id} }

\* the nodes at most n strong edges away from a node of S
RECURSIVE C24_Reach(_, _, _)
C24_Reach(g, S, n) == IF n = 0 THEN S ELSE C24_Reach(g, C24_Grow(g, S), n - 1)

\* C24: after the genre-overlap build any two distinct artists with the
\* same lowercased primary genre, a genre-less artist having the primary
\* genre "unknown", lie in the same connected component of the strong-edge
\* graph.
C24_SamePrimaryGenreConnected ==
    graph.variant = "genreOverlap" =>
        \A i, j \in 1..Len(graph.nodes) :
            (i # j /\ PrimaryGenre(graph.nodes[i]) = PrimaryGenre(graph.nodes[j]))
                => j \in C24_Reach(graph, {i}, Len(graph.nodes))

\* C25: once the graph is built, no step changes the artist set or either
\* edge set, and a step that changes a node's position is a tick of the
\* simulation.
C25_GraphImmutableAfterBuild ==
    [][graph.variant # "none" =>
          /\ graph' = graph
          /\ (position' # position => TickRan)]_vars

\* built with an edge, the simulation has ticked and a filter is applied
C25_Witness ==
    /\ graph.links # <<>>
    /\ simulation.ticks > 0
    /\ searchTerm # <<>> /\ activeGenre.set
    /\ \E i \in 1..Len(linkOpacity) : linkOpacity[i] = LinkVisibleOpacity

\* the lowercased genres the legend offers
C30_LegendGenres == { ToLowerCase(legendItems[k]) : k \in 1..Len(legendItems) }

C27_SearchHighlightsFirstMatch ==
    [][LET value == Trim(ToLowerCase(searchTerm'))
           matched == FirstMatch(graph.nodes, value)
       IN  (searchTerm' # searchTerm /\ graph.nodes # <<>>
                /\ Truthy(value) /\ matched # 0)
           => /\ activeNode' = SomeNode(graph.nodes[matched].id)
              /\ nodeRadius'[matched] = ChainStyle.scaled]_vars

\* C26: in the freezing variants, once the simulation has reached its end
\* it is stopped and every node's fx, fy are its x, y, and from then on no
\* step changes a node's position or restarts the simulation.
C26_FrozenAtEnd ==
    /\ [](simulation.state = "converged" =>
             /\ Len(fixed) = Len(position)
             /\ \A i \in 1..Len(position) : fixed[i] = position[i])
    /\ [][simulation.state = "converged" =>
             /\ position' = position
             /\ fixed' = fixed
             /\ simulation' = simulation]_vars

\* the simulation has ended after its ticks with nodes pinned where they are
C26_Witness ==
    /\ simulation.state = "converged"
    /\ simulation.ticks = MaxTicks
    /\ Len(graph.nodes) >= 2
    /\ \A i \in 1..Len(position) : fixed[i] = position[i] /\ fixed[i] # <<>>

\* the highlight visuals are applied: some circle has the highlight radius
C28_Highlighted == \E i \in 1..Len(nodeRadius) : nodeRadius[i] = SpotifyStyle.scaled

\* C28: in the connection variant with search, activeNode is non-null
\* exactly when the highlight visuals are applied, and a click on a node
\* while the search box is empty and nothing is highlighted makes that node
\* the active, highlighted one.
C28_ActiveNodeIffHighlighted ==
    /\ [](activeNode.set <=> C28_Highlighted)
    /\ [][(SpotifyClick /\ searchTerm = <<>> /\ ~C28_Highlighted) =>
             (activeNode'.set /\ C28_Highlighted')]_vars

\* no pointer is dragging a node
C29_NoDrag == ActiveGestures = {}

\* C29: in the drag variants a node that is being dragged is pinned and the
\* simulation is running; when no drag is active no node is pinned and
\* alphaTarget is 0; and once the drags have ended for good the simulation
\* comes to rest, whatever the order of the starts and ends of the drags.
C29_DragPinsAndSettles ==
    /\ [](\A p \in ActiveGestures :
             fixed[gestures[p]] # <<>> /\ simulation.state = "running")
    /\ [](C29_NoDrag =>
             alphaTarget = 0 /\ \A i \in 1..Len(fixed) : fixed[i] = <<>>)
    /\ (<>[]C29_NoDrag => <>[](simulation.state # "running"))

====
